---- MODULE Spec2Model ----
(***************************************************************************)
(* Synchronization engine of SolanaOnBase: RobustBackfillerV2              *)
(* (src/robust_backfill_v2.py) with its adaptive window fetcher, gap       *)
(* detector, deduplicating store and continuous loop.                      *)
(*                                                                         *)
(* Block numbers, the result cap and the window sizes are scaled down; the *)
(* order relations of the source are kept:                                 *)
(*   MIN_BLOCK_RANGE (100) < gap tolerance (1000) < MAX_BLOCK_RANGE (5000) *)
(*   caught-up tolerance (100) = MIN_BLOCK_RANGE                           *)
(*   cap margin (10) < MAX_RESULTS_PER_QUERY (10000)                       *)
(***************************************************************************)
EXTENDS Integers, Sequences, FiniteSets, TLC

\* ---------------------------------------------------------------- constants
\* Program constants (scaled values; the source value is in the comment).
TOKEN_START_BLOCK == 10
\* source: 38699339
MAX_RESULTS_PER_QUERY == 3
\* source: 10000
CAP_MARGIN == 1
\* source: 10, in "count >= MAX_RESULTS_PER_QUERY - 10"
MIN_BLOCK_RANGE == 1
\* source: 100
MAX_BLOCK_RANGE == 4
\* source: 5000
GAP_TOLERANCE == 2
\* source: 1000, in "gap_size > 1000"
CAUGHT_UP_TOLERANCE == 1
\* source: 100, in "current_block - 100"
SAVE_THRESHOLD == 2
\* source: 10000, in "len(new_transactions) > 10000"
HEAD_ESTIMATE == 18
\* source: 40600000, the fallback when the head query fails
MAX_RETRIES == 2
\* source: 5, the default of _make_request's max_retries
NUM_KEYS == 2
\* source: len(API_KEYS)
NONE == -1
\* Python's None as the end of the open-ended gap
MIN_INTERVAL == 2
\* source: 1.0 second, in _rate_limit_wait; one tick is half a second
BACKOFF_UNIT == 3
\* source: 5 seconds, in "time.sleep(5 * (attempt + 1))"
RATE_LIMIT_SLEEP == 4
\* source: 30 seconds, the sleep after a rate-limit answer
START_TIME == 2
\* time.time() at construction; last_request_time starts at 0, long before

\* Bounds of the environment.
MaxHead == 16
\* the highest block the chain reaches
MaxFaults == 2
\* how many provider/filesystem faults one behaviour may contain

HeadInit == MaxHead - 1

\* ------------------------------------------------------------------- ledger
\* The provider's ledger, ascending (the queries ask sort=asc). One row per
\* transfer event: hash is the transaction identifier, v tells apart two
\* rows of one transaction. Blocks 14 and 15 hold no transfer.
Ledger ==
  << [hash |-> 1, blockNumber |-> 10, v |-> 0],
     [hash |-> 2, blockNumber |-> 11, v |-> 0],
     [hash |-> 3, blockNumber |-> 12, v |-> 0],
     [hash |-> 4, blockNumber |-> 13, v |-> 0],
     [hash |-> 5, blockNumber |-> 16, v |-> 0],
     [hash |-> 5, blockNumber |-> 16, v |-> 1],
     [hash |-> 6, blockNumber |-> 17, v |-> 0] >>

Take(seq, n) == IF Len(seq) <= n THEN seq ELSE SubSeq(seq, 1, n)

\* What the ledger holds in [s, e] once the chain has reached block head.
LedgerIn(s, e, head) ==
  SelectSeq(Ledger, LAMBDA tx : tx.blockNumber >= s /\ tx.blockNumber <= e
                                /\ tx.blockNumber <= head)

\* The provider's answer to tokentx(startblock=s, endblock=e, offset=cap):
\* the first MAX_RESULTS_PER_QUERY rows of the window.
ProviderRows(s, e, head) == Take(LedgerIn(s, e, head), MAX_RESULTS_PER_QUERY)

\* ------------------------------------------------------------ pure helpers
Min2(a, b) == IF a <= b THEN a ELSE b
Max2(a, b) == IF a >= b THEN a ELSE b
SetMax(S) == CHOOSE x \in S : \A y \in S : y <= x
SetMin(S) == CHOOSE x \in S : \A y \in S : x <= y

RECURSIVE SortedSeq(_)
SortedSeq(S) == IF S = {} THEN <<>>
                ELSE LET m == SetMin(S) IN <<m>> \o SortedSeq(S \ {m})

\* tx.get('hash'); 0 stands for a missing or empty hash (falsy).
HashOfWithRow(tx) == IF tx.hash = 0 THEN 0 ELSE tx.hash * 10 + tx.v
HashOf(tx) == tx.hash

HashesOf(txs) == {HashOf(txs[i]) : i \in DOMAIN txs} \ {0}
BlocksOf(txs) == {txs[i].blockNumber : i \in DOMAIN txs}

\* The deduplication loop of save_transactions: first occurrence wins, rows
\* without a hash are dropped. unique holds the dict's values in insertion
\* order, seen its keys.
RECURSIVE Deduplicate(_, _, _)
Deduplicate(txs, seen, unique) ==
  IF txs = <<>> THEN unique
  ELSE LET tx == Head(txs)
           tx_hash == HashOf(tx)
       IN IF tx_hash # 0 /\ tx_hash \notin seen
          THEN Deduplicate(Tail(txs), seen \cup {tx_hash}, Append(unique, tx))
          ELSE Deduplicate(Tail(txs), seen, unique)

\* final_txs of save_transactions(existing_txs, new_transactions).
MergeNoDedup(existing_txs, new_txs) == existing_txs \o new_txs
MergeIncomingFirst(existing_txs, new_txs) ==
  Deduplicate(new_txs \o existing_txs, {}, <<>>)
MergeDropExisting(existing_txs, new_txs) == Deduplicate(new_txs, {}, <<>>)
Merge(existing_txs, new_txs) == Deduplicate(existing_txs \o new_txs, {}, <<>>)

\* The loop's filter (run_continuous): append the fetched rows whose hash is
\* not yet in existing_hashes, adding each hash as it is appended.
RECURSIVE AddNew(_, _, _)
AddNew(new_transactions, fetched, hashes) ==
  IF fetched = <<>> THEN [txs |-> new_transactions, hashes |-> hashes]
  ELSE LET tx == Head(fetched)
       IN IF HashOf(tx) # 0 /\ HashOf(tx) \notin hashes
          THEN AddNew(Append(new_transactions, tx), Tail(fetched),
                      hashes \cup {HashOf(tx)})
          ELSE AddNew(new_transactions, Tail(fetched), hashes)

\* identify_gaps with the origin and the tolerance as parameters.
RECURSIVE InternalGapsAtLeast(_, _, _)
InternalGapsAtLeast(blocks, i, tol) ==
  IF i > Len(blocks) THEN <<>>
  ELSE (IF blocks[i] - blocks[i-1] >= tol
        THEN << <<blocks[i-1] + 1, blocks[i] - 1>> >> ELSE <<>>)
       \o InternalGapsAtLeast(blocks, i + 1, tol)

RECURSIVE InternalGaps(_, _, _)
InternalGaps(blocks, i, tol) ==
  IF i > Len(blocks) THEN <<>>
  ELSE (IF blocks[i] - blocks[i-1] > tol
        THEN << <<blocks[i-1] + 1, blocks[i] - 1>> >> ELSE <<>>)
       \o InternalGaps(blocks, i + 1, tol)

IdentifyGapsWith(transactions, origin, tol) ==
  IF transactions = <<>> THEN << <<origin, NONE>> >>
  ELSE LET blocks == SortedSeq(BlocksOf(transactions))
       IN (IF blocks[1] > origin THEN << <<origin, blocks[1] - 1>> >> ELSE <<>>)
          \o InternalGaps(blocks, 2, tol)

identify_gaps_with_trailing(transactions) ==
  IdentifyGapsWith(transactions, TOKEN_START_BLOCK, GAP_TOLERANCE)
  \o (IF transactions = <<>> THEN <<>>
      ELSE << <<SetMax(BlocksOf(transactions)) + 1,
                SetMax(BlocksOf(transactions)) + GAP_TOLERANCE>> >>)

identify_gaps(transactions) ==
  IdentifyGapsWith(transactions, TOKEN_START_BLOCK, GAP_TOLERANCE)

\* current_max of run_continuous.
CurrentMax(existing_txs) ==
  IF existing_txs # <<>> THEN SetMax(BlocksOf(existing_txs))
  ELSE TOKEN_START_BLOCK - 1

rotate_key_no_wrap(index, n) == index + 1

\* _rotate_key: the index of the credential after the active one.
rotate_key(index, n) == (index + 1) % n

\* The cap test of fetch_range.
IsCappedNever(count) == FALSE
IsCapped(count) == count >= MAX_RESULTS_PER_QUERY - CAP_MARGIN

\* new_range of fetch_range.
NewRange(block_range) == Max2(block_range \div 2, MIN_BLOCK_RANGE)


\* -------------------------------------------------------------------- state
VARIABLES
  storeFile,          \* transactions.json: [exists, recs, torn]
  tempFile,           \* the mkstemp file of save_transactions
  chainHead,          \* the provider's chain head
  faults,             \* faults injected so far
  pc,                 \* position of run_continuous
  existing_txs, existing_hashes, gaps, gapIdx, current_max, current_block,
  new_transactions, final_txs,
  phase,              \* which fetch_range call of the loop is open
  saveRet,            \* which save_transactions call of the loop is open
  stack,              \* the open fetch_range calls, innermost last
  attempt,            \* attempt of the open _make_request
  current_key_index,
  fileAtCall,         \* history: storeFile when save_transactions was entered
  fileNew,            \* history: final_txs of that call
  saveState,          \* history: "none", "in_progress", "ok", "failed"
  abandoned,          \* history: windows given up
  lastResp,           \* history: the answer fetch_range has just handled
  topFetch,           \* history: the loop's last fetch_range call
  now,                \* time.time(), in ticks
  last_request_time,
  sendTimes,          \* history: send times of the last two HTTP requests
  readerView,         \* what a reader of transactions.json has just read
  api_keys,           \* len(self.api_keys)
  keyTrace,           \* history: the credentials active since the start
  errors,             \* self.errors
  transactions_fetched,
  windows,            \* history: the windows fetch_range has finished with
  apikey,             \* params['apikey'] of _make_request (index of the key)
  status,             \* backfill_status.json as last written
  writerPc,           \* position of another writer of transactions.json
  writerTxs,          \* the list that writer holds
  writerSaved,        \* history: the list that writer last wrote to the store
  scanPc,             \* position in RoutescanFetcher.fetch_all_transactions
  scanArgs,           \* its arguments start_block and end_block
  target_block,
  absolute_max_block,
  from_block,
  to_block,
  scanAttempt,        \* attempt of its retry loop
  consecutive_empty,
  all_transactions,
  consecutive_rate_limits,
  scanKeyIndex,       \* the fetcher's current_key_index
  wait_time,          \* the wait _make_request last computed
  scanFaults,         \* failed answers the fetcher has received
  scanHist            \* history of the call

fileVars  == <<storeFile, tempFile>>
envVars   == <<chainHead, faults>>
loopVars  == <<existing_txs, existing_hashes, gaps, gapIdx, current_max,
               current_block, new_transactions, final_txs, phase, saveRet>>
fetchVars == <<stack, attempt, current_key_index>>
saveHist  == <<fileAtCall, fileNew, saveState>>
fetchHist == <<abandoned, lastResp, topFetch>>
clockVars == <<now, last_request_time, sendTimes>>
keyVars   == <<api_keys, keyTrace>>
logVars   == <<errors, transactions_fetched, windows, apikey, status>>
writerVars == <<writerPc, writerTxs, writerSaved>>
scanVars == <<scanPc, scanArgs, target_block, absolute_max_block, from_block,
              to_block, scanAttempt, consecutive_empty, all_transactions,
              consecutive_rate_limits, scanKeyIndex, wait_time, scanFaults,
              scanHist>>
toolVars == <<writerVars, scanVars>>
vars == <<fileVars, envVars, pc, loopVars, fetchVars, saveHist, fetchHist,
          clockVars, readerView, keyVars, logVars, toolVars>>

NoFile == [exists |-> FALSE, recs |-> <<>>, torn |-> FALSE]
File(recs, torn) == [exists |-> TRUE, recs |-> recs, torn |-> torn]

\* What is known of a call of fetch_all_transactions: the windows it has
\* queried, whether a window was given up after the retries, whether the
\* loop was left by a break, the rate-limit answers since the last
\* successful answer, and how the last rate limit was signalled.
NoScanHist == [queries |-> <<>>, failed |-> FALSE, broke |-> FALSE,
               limits |-> 0, signal |-> "none"]

\* RoutescanFetcher() before fetch_all_transactions is called.
ScanIdle ==
  /\ scanPc = "idle"
  /\ scanArgs = <<0, 0>>
  /\ target_block = 0
  /\ absolute_max_block = 0
  /\ from_block = 0
  /\ to_block = 0
  /\ scanAttempt = 0
  /\ consecutive_empty = 0
  /\ all_transactions = <<>>
  /\ consecutive_rate_limits = 0
  /\ scanKeyIndex = 0
  /\ wait_time = 0
  /\ scanFaults = 0
  /\ scanHist = NoScanHist

\* The fields of the status file that come from the counters: before the
\* first error and the first record.
NoStatus == [errors |-> <<>>, transactions_fetched |-> 0]

\* "errors": self.errors[-5:] (the tail is as long as the retries of one
\* request).
ERROR_TAIL == 2
LastErrors(e) ==
  IF Len(e) <= ERROR_TAIL THEN e
  ELSE SubSeq(e, Len(e) - ERROR_TAIL + 1, Len(e))

\* The reader holds nothing.
NoView == [read |-> FALSE, recs |-> <<>>, torn |-> FALSE]

\* What the steps of the loop leave alone: the clock, the key history, the
\* error log with the counter, and the other writers are followed in the
\* specifications of their own, and a reader has finished with what it read
\* before the loop's next step.
Aside ==
  /\ UNCHANGED <<clockVars, keyVars, logVars, toolVars>>
  /\ readerView' = NoView

NoResp  == [kind |-> "none", s |-> 0, e |-> 0, range |-> 0, count |-> 0,
            added |-> FALSE]
\* head0: the chain head at the call; done: it has returned; clean: no window
\* of it was given up; calls: the fetch_range calls of the cycle so far.
NoFetch == [done |-> FALSE, start |-> 0, end |-> 0, head0 |-> 0,
            result |-> <<>>, clean |-> FALSE, calls |-> <<>>]

\* A fetch_range activation: its arguments and its two locals. head0 is the
\* chain head when the top-level call started (history).
Frame(start, end, block_range) ==
  [start |-> start, end |-> end, block_range |-> block_range,
   current_start |-> start, all_transactions |-> <<>>]

Top == stack[Len(stack)]
CurrentEndUnclipped(f) == f.current_start + f.block_range - 1
\* current_end of fetch_range.
CurrentEnd(f) == Min2(f.current_start + f.block_range - 1, f.end)
SetTop(f) == [stack EXCEPT ![Len(stack)] = f]

\* Stores the other tools of the repository may have left behind (each of
\* them deduplicates by hash before writing).
InitStores == { <<>>, <<Ledger[3]>>, <<Ledger[1], Ledger[4]>> }

Init ==
  /\ \E s \in InitStores :
        storeFile = IF s = <<>> THEN NoFile ELSE File(s, FALSE)
  /\ tempFile = NoFile
  /\ chainHead = HeadInit
  /\ faults = 0
  /\ pc = "start"
  /\ existing_txs = <<>>
  /\ existing_hashes = {}
  /\ gaps = <<>>
  /\ gapIdx = 1
  /\ current_max = 0
  /\ current_block = 0
  /\ new_transactions = <<>>
  /\ final_txs = <<>>
  /\ phase = "none"
  /\ saveRet = "none"
  /\ stack = <<>>
  /\ attempt = 0
  /\ current_key_index = 0
  /\ fileAtCall = NoFile
  /\ fileNew = <<>>
  /\ saveState = "none"
  /\ abandoned = {}
  /\ lastResp = NoResp
  /\ topFetch = NoFetch
  /\ now = START_TIME
  /\ last_request_time = 0
  /\ sendTimes = <<NONE, NONE>>
  /\ readerView = NoView
  /\ api_keys = NUM_KEYS
  /\ keyTrace = <<0>>
  /\ errors = <<>>
  /\ transactions_fetched = 0
  /\ windows = <<>>
  /\ apikey = NONE
  /\ status = NoStatus
  /\ writerPc = "idle"
  /\ writerTxs = <<>>
  /\ writerSaved = <<>>
  /\ ScanIdle

\* ------------------------------------------------------- run_continuous
LoadStoreKeepsMemory ==
  /\ Aside
  /\ pc = "start"
  /\ pc' = "get_block"
  /\ existing_txs' = IF final_txs # <<>> THEN final_txs ELSE storeFile.recs
  /\ topFetch' = NoFetch
  /\ lastResp' = NoResp
  /\ UNCHANGED <<fileVars, envVars, existing_hashes, gaps, gapIdx, current_max,
                 current_block, new_transactions, final_txs, phase, saveRet,
                 fetchVars, saveHist, abandoned>>

\* "Load existing transactions": json.load raises on a file that is not a
\* complete JSON document, which the loop's except clause catches.
LoadStore ==
  /\ Aside
  /\ pc = "start"
  /\ IF storeFile.exists /\ storeFile.torn
     THEN /\ pc' = "error"
          /\ UNCHANGED existing_txs
     ELSE /\ pc' = "get_block"
          /\ existing_txs' = storeFile.recs
  /\ topFetch' = NoFetch
  /\ lastResp' = NoResp
  /\ UNCHANGED <<fileVars, envVars, existing_hashes, gaps, gapIdx, current_max,
                 current_block, new_transactions, final_txs, phase, saveRet,
                 fetchVars, saveHist, abandoned>>

\* get_current_block and the straight-line code up to the gap loop.
AfterHead(head) ==
  /\ Aside
  /\ current_block' = head
  /\ existing_hashes' = HashesOf(existing_txs)
  /\ gaps' = identify_gaps(existing_txs)
  /\ current_max' = CurrentMax(existing_txs)
  /\ new_transactions' = <<>>
  /\ gapIdx' = 1
  /\ pc' = "gaps"
  /\ UNCHANGED <<fileVars, chainHead, existing_txs, final_txs, phase, saveRet,
                 fetchVars, saveHist, fetchHist>>

GetCurrentBlock ==
  /\ pc = "get_block"
  /\ faults' = faults
  /\ AfterHead(chainHead)

GetCurrentBlockFails ==
  /\ pc = "get_block"
  /\ faults < MaxFaults
  /\ faults' = faults + 1
  /\ AfterHead(HEAD_ESTIMATE)

\* Entering fetch_range(start, end) from the loop.
CallFetch(start, end, ph) ==
  /\ stack' = << Frame(start, end, MAX_BLOCK_RANGE) >>
  /\ phase' = ph
  /\ topFetch' = [done |-> FALSE, start |-> start, end |-> end,
                   head0 |-> chainHead, result |-> <<>>, clean |-> TRUE,
                   calls |-> Append(topFetch.calls,
                                    [s |-> start, e |-> end, phase |-> ph])]
  /\ pc' = "fetch"

NextGapOpenToHead ==
  /\ Aside
  /\ pc = "gaps"
  /\ gapIdx <= Len(gaps)
  /\ LET start == gaps[gapIdx][1]
         end == IF gaps[gapIdx][2] = NONE THEN current_block
                ELSE gaps[gapIdx][2]
     IN IF end < start
        THEN /\ gapIdx' = gapIdx + 1
             /\ UNCHANGED <<pc, stack, phase, topFetch>>
        ELSE /\ CallFetch(start, end, "gap")
             /\ UNCHANGED gapIdx
  /\ UNCHANGED <<fileVars, envVars, existing_txs, existing_hashes, gaps,
                 current_max, current_block, new_transactions, final_txs,
                 saveRet, attempt, current_key_index, saveHist, abandoned,
                 lastResp>>

\* One iteration of "for i, (start, end) in enumerate(gaps)" up to the call.
NextGap ==
  /\ Aside
  /\ pc = "gaps"
  /\ gapIdx <= Len(gaps)
  /\ LET start == gaps[gapIdx][1]
         end == IF gaps[gapIdx][2] = NONE THEN current_max ELSE gaps[gapIdx][2]
     IN IF end < start
        THEN /\ gapIdx' = gapIdx + 1
             /\ UNCHANGED <<pc, stack, phase, topFetch>>
        ELSE /\ CallFetch(start, end, "gap")
             /\ UNCHANGED gapIdx
  /\ UNCHANGED <<fileVars, envVars, existing_txs, existing_hashes, gaps,
                 current_max, current_block, new_transactions, final_txs,
                 saveRet, attempt, current_key_index, saveHist, abandoned,
                 lastResp>>

StartExtendEarly ==
  /\ Aside
  /\ pc = "gaps"
  /\ IF current_max < current_block
     THEN CallFetch(current_max + 1, current_block, "extend")
     ELSE /\ pc' = "final"
          /\ UNCHANGED <<stack, phase, topFetch>>
  /\ UNCHANGED <<fileVars, envVars, existing_txs, existing_hashes, gaps, gapIdx,
                 current_max, current_block, new_transactions, final_txs,
                 saveRet, attempt, current_key_index, saveHist, abandoned,
                 lastResp>>

\* "Fetch new blocks": after the last gap.
StartExtend ==
  /\ Aside
  /\ pc = "gaps"
  /\ gapIdx > Len(gaps)
  /\ IF current_max < current_block
     THEN CallFetch(current_max + 1, current_block, "extend")
     ELSE /\ pc' = "final"
          /\ UNCHANGED <<stack, phase, topFetch>>
  /\ UNCHANGED <<fileVars, envVars, existing_txs, existing_hashes, gaps, gapIdx,
                 current_max, current_block, new_transactions, final_txs,
                 saveRet, attempt, current_key_index, saveHist, abandoned,
                 lastResp>>

\* ------------------------------------------------------------ fetch_range
loopRest == <<existing_txs, gaps, current_max, current_block, final_txs, phase>>

\* "while current_start <= end_block": the loop test, the window and the
\* call of _make_request.
FetchQueryCore ==
  /\ pc = "fetch"
  /\ Top.current_start <= Top.end
  /\ pc' = "request"
  /\ attempt' = 0
  /\ lastResp' = NoResp
  /\ UNCHANGED <<fileVars, envVars, loopVars, stack, current_key_index,
                 saveHist, abandoned, topFetch>>

FetchQuery == FetchQueryCore /\ Aside

FetchReturnSubDropsResults ==
  /\ Aside
  /\ pc = "fetch"
  /\ Top.current_start > Top.end
  /\ Len(stack) > 1
  /\ LET caller == stack[Len(stack) - 1]
         back == [caller EXCEPT !.current_start = CurrentEnd(caller) + 1]
     IN stack' = Append(SubSeq(stack, 1, Len(stack) - 2), back)
  /\ lastResp' = NoResp
  /\ UNCHANGED <<fileVars, envVars, pc, loopVars, attempt, current_key_index,
                 saveHist, abandoned, topFetch>>

\* "return all_transactions" of a recursive call: the caller extends its
\* list with sub_results and moves on to current_end + 1.
FetchReturnSubCore ==
  /\ pc = "fetch"
  /\ Top.current_start > Top.end
  /\ Len(stack) > 1
  /\ LET caller == stack[Len(stack) - 1]
         back == [caller EXCEPT
                    !.all_transactions = @ \o Top.all_transactions,
                    !.current_start = CurrentEnd(caller) + 1]
     IN stack' = Append(SubSeq(stack, 1, Len(stack) - 2), back)
  /\ lastResp' = NoResp
  /\ UNCHANGED <<fileVars, envVars, pc, loopVars, attempt, current_key_index,
                 saveHist, abandoned, topFetch>>

FetchReturnSub == FetchReturnSubCore /\ Aside

\* "return all_transactions" to the loop: the filter against existing_hashes,
\* and for a gap the periodic save test.
FetchReturnLoop ==
  /\ Aside
  /\ pc = "fetch"
  /\ Top.current_start > Top.end
  /\ Len(stack) = 1
  /\ LET r == AddNew(new_transactions, Top.all_transactions, existing_hashes)
     IN /\ new_transactions' = r.txs
        /\ existing_hashes' = r.hashes
        /\ IF phase = "gap"
           THEN /\ gapIdx' = gapIdx + 1
                /\ IF Len(r.txs) > SAVE_THRESHOLD
                   THEN pc' = "save" /\ saveRet' = "gaps"
                   ELSE pc' = "gaps" /\ UNCHANGED saveRet
           ELSE /\ pc' = "final"
                /\ UNCHANGED <<gapIdx, saveRet>>
  /\ topFetch' = [topFetch EXCEPT !.done = TRUE,
                                   !.result = Top.all_transactions]
  /\ stack' = <<>>
  /\ lastResp' = NoResp
  /\ UNCHANGED <<fileVars, envVars, loopRest, attempt, current_key_index,
                 saveHist, abandoned>>

\* ---------------------------------------------------------- _make_request
Resp(kind, f, count, added) ==
  [kind |-> kind, s |-> f.current_start, e |-> CurrentEnd(f),
   range |-> f.block_range, count |-> count, added |-> added]

HandleResultsSkipsBlock(results) ==
  LET f == Top
      accept == [f EXCEPT !.all_transactions = @ \o results,
                          !.current_start = CurrentEnd(f) + 2]
  IN /\ stack' = SetTop(accept)
     /\ lastResp' = Resp("ok", f, Len(results), TRUE)

\* fetch_range on a list returned by _make_request.
HandleResults(results) ==
  LET f == Top
      count == Len(results)
      accept == [f EXCEPT !.all_transactions = @ \o results,
                          !.current_start = CurrentEnd(f) + 1]
  IN IF IsCapped(count) /\ f.block_range > MIN_BLOCK_RANGE
     THEN /\ stack' = Append(stack, Frame(f.current_start, CurrentEnd(f),
                                          NewRange(f.block_range)))
          /\ lastResp' = Resp("ok", f, count, FALSE)
     ELSE /\ stack' = SetTop(accept)
          /\ lastResp' = Resp("ok", f, count, TRUE)

\* status '1', message 'OK': the rows of the window, at most the cap.
RespOkCore ==
  /\ pc = "request"
  /\ attempt < MAX_RETRIES
  /\ ProviderRows(Top.current_start, CurrentEnd(Top), chainHead) # <<>>
  /\ HandleResults(ProviderRows(Top.current_start, CurrentEnd(Top), chainHead))
  /\ pc' = "fetch"
  /\ UNCHANGED <<fileVars, envVars, loopVars, attempt, current_key_index,
                 saveHist, abandoned, topFetch>>

RespOk == RespOkCore /\ Aside

\* message 'No transactions found': the empty list.
RespNoTransactionsCore ==
  /\ pc = "request"
  /\ attempt < MAX_RETRIES
  /\ ProviderRows(Top.current_start, CurrentEnd(Top), chainHead) = <<>>
  /\ HandleResults(<<>>)
  /\ pc' = "fetch"
  /\ UNCHANGED <<fileVars, envVars, loopVars, attempt, current_key_index,
                 saveHist, abandoned, topFetch>>

RespNoTransactions == RespNoTransactionsCore /\ Aside

GiveUpStays ==
  /\ stack' = stack
  /\ abandoned' = abandoned \cup
        {[s |-> Top.current_start, e |-> CurrentEnd(Top)]}
  /\ topFetch' = [topFetch EXCEPT !.clean = FALSE]
  /\ pc' = "fetch"
  /\ UNCHANGED attempt

\* fetch_range on None: "current_start = current_end + 1; continue".
GiveUp ==
  /\ stack' = SetTop([Top EXCEPT !.current_start = CurrentEnd(Top) + 1])
  /\ abandoned' = abandoned \cup
        {[s |-> Top.current_start, e |-> CurrentEnd(Top)]}
  /\ topFetch' = [topFetch EXCEPT !.clean = FALSE]
  /\ pc' = "fetch"
  /\ UNCHANGED attempt

\* An answer that ends this attempt; after the last attempt the for loop is
\* left and _make_request returns None.
FailedAttemptCore(kind, rotate) ==
  /\ pc = "request"
  /\ attempt < MAX_RETRIES
  /\ faults < MaxFaults
  /\ faults' = faults + 1
  /\ current_key_index' = IF rotate
                          THEN rotate_key(current_key_index, api_keys)
                          ELSE current_key_index
  /\ lastResp' = Resp(kind, Top, 0, FALSE)
  /\ IF attempt + 1 < MAX_RETRIES
     THEN /\ attempt' = attempt + 1
          /\ UNCHANGED <<pc, stack, abandoned, topFetch>>
     ELSE GiveUp
  /\ UNCHANGED <<fileVars, chainHead, loopVars, saveHist>>

FailedAttempt(kind, rotate) == FailedAttemptCore(kind, rotate) /\ Aside

\* HTTP 429: rotate, sleep, continue.
Resp429 == FailedAttempt("http_429", TRUE)
\* HTTP 200 with 'rate limit' in the body: rotate, sleep, continue.
RespRateLimitBody == FailedAttempt("rate_limit_body", TRUE)
\* Any other HTTP status: sleep, next attempt.
RespHttpError == FailedAttempt("http_error", FALSE)
\* requests.get raises: sleep, next attempt.
RespException == FailedAttempt("exception", FALSE)

\* HTTP 200 with another message: "return None" at once.
RespApiErrorCore ==
  /\ pc = "request"
  /\ attempt < MAX_RETRIES
  /\ faults < MaxFaults
  /\ faults' = faults + 1
  /\ lastResp' = Resp("api_error", Top, 0, FALSE)
  /\ GiveUp
  /\ UNCHANGED <<fileVars, chainHead, loopVars, current_key_index, saveHist>>

RespApiError == RespApiErrorCore /\ Aside


\* ------------------------------------------------------ save_transactions
\* "Final save": the test on new_transactions.
FinalSave ==
  /\ Aside
  /\ pc = "final"
  /\ IF new_transactions # <<>>
     THEN /\ pc' = "save"
          /\ saveRet' = "final"
          /\ UNCHANGED final_txs
     ELSE /\ pc' = "check"
          /\ final_txs' = existing_txs
          /\ UNCHANGED saveRet
  /\ UNCHANGED <<fileVars, envVars, existing_txs, existing_hashes, gaps, gapIdx,
                 current_max, current_block, new_transactions, phase,
                 fetchVars, saveHist, fetchHist>>

saveRest == <<envVars, existing_hashes, gaps, gapIdx, current_max,
              current_block, phase, fetchVars, fetchHist>>

SaveBeginInPlace ==
  /\ Aside
  /\ pc = "save"
  /\ final_txs' = Merge(existing_txs, new_transactions)
  /\ fileAtCall' = storeFile
  /\ fileNew' = final_txs'
  /\ saveState' = "in_progress"
  /\ storeFile' = File(<<>>, TRUE)
  /\ pc' = "save_write"
  /\ UNCHANGED <<tempFile, existing_txs, new_transactions, saveRet, saveRest>>

\* The merge, the deduplication and tempfile.mkstemp, which leaves an empty
\* file (not yet a JSON document).
SaveBegin ==
  /\ Aside
  /\ pc = "save"
  /\ final_txs' = Merge(existing_txs, new_transactions)
  /\ fileAtCall' = storeFile
  /\ fileNew' = final_txs'
  /\ saveState' = "in_progress"
  /\ tempFile' = File(<<>>, TRUE)
  /\ pc' = "save_write"
  /\ UNCHANGED <<storeFile, existing_txs, new_transactions, saveRet, saveRest>>

\* mkstemp raises: the except clause reads temp_path, which is unbound, so
\* an UnboundLocalError leaves save_transactions and reaches the loop.
SaveMkstempFails ==
  /\ Aside
  /\ pc = "save"
  /\ faults < MaxFaults
  /\ faults' = faults + 1
  /\ final_txs' = Merge(existing_txs, new_transactions)
  /\ fileAtCall' = storeFile
  /\ fileNew' = final_txs'
  /\ saveState' = "failed"
  /\ pc' = "error"
  /\ UNCHANGED <<fileVars, chainHead, existing_txs, new_transactions, saveRet,
                 existing_hashes, gaps, gapIdx, current_max, current_block,
                 phase, fetchVars, fetchHist>>

\* json.dump into the temporary file and the close of the with block.
SaveWriteInPlace ==
  /\ Aside
  /\ pc = "save_write"
  /\ storeFile' = File(final_txs, FALSE)
  /\ pc' = "save_rename"
  /\ UNCHANGED <<tempFile, existing_txs, new_transactions, final_txs, saveRet,
                 saveRest, saveHist>>

SaveWrite ==
  /\ Aside
  /\ pc = "save_write"
  /\ tempFile' = File(final_txs, FALSE)
  /\ pc' = "save_rename"
  /\ UNCHANGED <<storeFile, existing_txs, new_transactions, final_txs, saveRet,
                 saveRest, saveHist>>

\* json.dump raises part-way: the temporary file holds a proper prefix.
SaveWriteFails ==
  /\ Aside
  /\ pc = "save_write"
  /\ faults < MaxFaults
  /\ faults' = faults + 1
  /\ \E n \in 0 .. (Len(final_txs) - 1) :
        tempFile' = File(SubSeq(final_txs, 1, n), TRUE)
  /\ saveState' = "failed"
  /\ pc' = "save_cleanup"
  /\ UNCHANGED <<storeFile, chainHead, existing_txs, new_transactions,
                 final_txs, saveRet, existing_hashes, gaps, gapIdx, current_max,
                 current_block, phase, fetchVars, fetchHist, fileAtCall,
                 fileNew>>

\* "return final_txs" and what the loop does with it.
SaveReturn ==
  IF saveRet = "gaps"
  THEN /\ existing_txs' = final_txs
       /\ new_transactions' = <<>>
       /\ pc' = "gaps"
  ELSE /\ pc' = "check"
       /\ UNCHANGED <<existing_txs, new_transactions>>

\* shutil.move(temp_path, 'transactions.json'): one rename.
SaveRename ==
  /\ Aside
  /\ pc = "save_rename"
  /\ storeFile' = tempFile
  /\ tempFile' = NoFile
  /\ saveState' = "ok"
  /\ SaveReturn
  /\ UNCHANGED <<final_txs, saveRet, saveRest, fileAtCall, fileNew>>

SaveRenameFails ==
  /\ Aside
  /\ pc = "save_rename"
  /\ faults < MaxFaults
  /\ faults' = faults + 1
  /\ saveState' = "failed"
  /\ pc' = "save_cleanup"
  /\ UNCHANGED <<fileVars, chainHead, existing_txs, new_transactions, final_txs,
                 saveRet, existing_hashes, gaps, gapIdx, current_max,
                 current_block, phase, fetchVars, fetchHist, fileAtCall,
                 fileNew>>

\* The except clause: print, remove the temporary file, fall through to
\* "return final_txs".
SaveCleanup ==
  /\ Aside
  /\ pc = "save_cleanup"
  /\ tempFile' = NoFile
  /\ SaveReturn
  /\ UNCHANGED <<storeFile, final_txs, saveRet, saveRest, saveHist>>

\* --------------------------------------------------- end of the cycle
MaxSavedBlock == IF final_txs # <<>> THEN SetMax(BlocksOf(final_txs)) ELSE 0

\* "Check if caught up".
CheckCaughtUp ==
  /\ Aside
  /\ pc = "check"
  /\ pc' = IF MaxSavedBlock >= current_block - CAUGHT_UP_TOLERANCE
           THEN "caught_up" ELSE "continue"
  /\ UNCHANGED <<fileVars, envVars, loopVars, fetchVars, saveHist, fetchHist>>

\* time.sleep(60) or time.sleep(5), then the next iteration of while True.
Sleep ==
  /\ Aside
  /\ pc \in {"caught_up", "continue"}
  /\ pc' = "start"
  /\ UNCHANGED <<fileVars, envVars, loopVars, fetchVars, saveHist, fetchHist>>

\* "except Exception": status error, time.sleep(30), next iteration.
ErrorCooldown ==
  /\ Aside
  /\ pc = "error"
  /\ pc' = "start"
  /\ UNCHANGED <<fileVars, envVars, loopVars, fetchVars, saveHist, fetchHist>>

\* "except KeyboardInterrupt": mark_stopped and break. The interrupt can
\* arrive at any statement, inside save_transactions too.
Interrupt ==
  /\ Aside
  /\ pc # "stopped"
  /\ pc' = "stopped"
  /\ UNCHANGED <<fileVars, envVars, loopVars, fetchVars, saveHist, fetchHist>>

\* main(): a new process, RobustBackfillerV2() and run_continuous() from the
\* top, with the store file the stopped process left. A temporary file it
\* left is never opened again, and the history starts afresh.
Restart ==
  /\ Aside
  /\ pc = "stopped"
  /\ pc' = "start"
  /\ existing_txs' = <<>>
  /\ existing_hashes' = {}
  /\ gaps' = <<>>
  /\ gapIdx' = 1
  /\ current_max' = 0
  /\ current_block' = 0
  /\ new_transactions' = <<>>
  /\ final_txs' = <<>>
  /\ phase' = "none"
  /\ saveRet' = "none"
  /\ stack' = <<>>
  /\ attempt' = 0
  /\ current_key_index' = 0
  /\ tempFile' = NoFile
  /\ fileAtCall' = NoFile
  /\ fileNew' = <<>>
  /\ saveState' = "none"
  /\ abandoned' = {}
  /\ topFetch' = NoFetch
  /\ lastResp' = NoResp
  /\ UNCHANGED <<storeFile, envVars>>

\* The chain grows by one block.
NewBlock ==
  /\ Aside
  /\ pc # "stopped"
  /\ chainHead < MaxHead
  /\ chainHead' = chainHead + 1
  /\ UNCHANGED <<fileVars, faults, pc, loopVars, fetchVars, saveHist, fetchHist>>

\* update_block_sync and update_dashboard_export (auto_sync_github):
\* open('transactions.json') and json.load, at any moment of the loop. An
\* open file keeps its inode, so what is read is the file as it is now.
ReadStore ==
  /\ storeFile.exists
  /\ readerView' = [read |-> TRUE, recs |-> storeFile.recs,
                     torn |-> storeFile.torn]
  /\ UNCHANGED <<fileVars, envVars, pc, loopVars, fetchVars, saveHist,
                 fetchHist, clockVars, keyVars, logVars, toolVars>>

Next ==
  \/ LoadStore \/ GetCurrentBlock \/ GetCurrentBlockFails
  \/ NextGap \/ StartExtend
  \/ FetchQuery \/ FetchReturnSub \/ FetchReturnLoop
  \/ RespOk \/ RespNoTransactions \/ Resp429 \/ RespRateLimitBody
  \/ RespHttpError \/ RespException \/ RespApiError
  \/ FinalSave \/ SaveBegin \/ SaveMkstempFails \/ SaveWrite \/ SaveWriteFails
  \/ SaveRename \/ SaveRenameFails \/ SaveCleanup
  \/ CheckCaughtUp \/ Sleep \/ ErrorCooldown
  \/ Interrupt \/ Restart \/ NewBlock \/ ReadStore

Spec == Init /\ [][Next]_vars


\* ------------------------------------------- the functions on their own
\* fetch_range when every _make_request returns a list (no None).
RECURSIVE FetchRangeOk(_, _, _, _)
FetchRangeOk(current_start, end_block, block_range, head) ==
  IF current_start > end_block THEN <<>>
  ELSE LET current_end == Min2(current_start + block_range - 1, end_block)
           results == ProviderRows(current_start, current_end, head)
       IN (IF IsCapped(Len(results)) /\ block_range > MIN_BLOCK_RANGE
           THEN FetchRangeOk(current_start, current_end, NewRange(block_range),
                             head)
           ELSE results)
          \o FetchRangeOk(current_end + 1, end_block, block_range, head)

\* The gap loop of run_continuous with every request answered: the rows it
\* leaves in new_transactions.
RECURSIVE FillGapsFrom(_, _, _, _, _)
FillGapsFrom(gs, i, cmax, acc, head) ==
  IF i > Len(gs) THEN acc
  ELSE LET start == gs[i][1]
           end == IF gs[i][2] = NONE THEN cmax ELSE gs[i][2]
       IN IF end < start THEN FillGapsFrom(gs, i + 1, cmax, acc, head)
          ELSE FillGapsFrom(gs, i + 1, cmax,
                 AddNew(acc.txs, FetchRangeOk(start, end, MAX_BLOCK_RANGE, head),
                        acc.hashes), head)

\* Everything but the variables a function's arguments and results use.
QuietKeys ==
  current_key_index = 0 /\ api_keys = NUM_KEYS /\ keyTrace = <<0>>

QuietRest ==
  /\ storeFile = NoFile /\ tempFile = NoFile
  /\ chainHead = MaxHead /\ faults = 0
  /\ existing_hashes = {} /\ gapIdx = 1 /\ current_block = MaxHead
  /\ phase = "none" /\ saveRet = "none"
  /\ stack = <<>> /\ attempt = 0
  /\ fileAtCall = NoFile /\ fileNew = <<>> /\ saveState = "none"
  /\ abandoned = {} /\ lastResp = NoResp /\ topFetch = NoFetch
  /\ now = START_TIME /\ last_request_time = 0 /\ sendTimes = <<NONE, NONE>>
  /\ readerView = NoView
  /\ errors = <<>> /\ transactions_fetched = 0 /\ windows = <<>>
  /\ apikey = NONE
  /\ status = NoStatus
  /\ writerPc = "idle" /\ writerTxs = <<>> /\ writerSaved = <<>>
  /\ ScanIdle

Quiet == QuietRest /\ QuietKeys

quietVars == <<fileVars, envVars, existing_hashes, gapIdx, current_block,
               phase, saveRet, fetchVars, saveHist, fetchHist, clockVars,
               readerView, keyVars, logVars, toolVars>>

\* Inputs of save_transactions: lists of at most MaxBatch rows over three
\* hashes (0: no hash), two rows per hash.
MaxBatch == 2
MergeRows ==
  {[hash |-> h, blockNumber |-> 10 + h, v |-> k] : h \in 0 .. 2, k \in 0 .. 1}
RECURSIVE SeqsUpTo(_, _)
SeqsUpTo(S, n) ==
  IF n = 0 THEN {<<>>}
  ELSE LET shorter == SeqsUpTo(S, n - 1)
       IN shorter \cup {Append(q, x) : q \in shorter, x \in S}
MergeInputs == SeqsUpTo(MergeRows, MaxBatch)

InitMerge ==
  /\ Quiet
  /\ pc = "merge_0"
  /\ existing_txs \in MergeInputs
  /\ new_transactions \in MergeInputs
  /\ final_txs = <<>>
  /\ gaps = <<>>
  /\ current_max = 0

\* final_txs = save_transactions(S, W).
MergeOnce ==
  /\ pc = "merge_0"
  /\ final_txs' = Merge(existing_txs, new_transactions)
  /\ pc' = "merge_1"
  /\ UNCHANGED <<quietVars, existing_txs, new_transactions, gaps, current_max>>

\* save_transactions(final_txs, W): the first result as the existing list.
MergeAgain ==
  /\ pc = "merge_1"
  /\ existing_txs' = final_txs
  /\ final_txs' = Merge(final_txs, new_transactions)
  /\ pc' = "merge_2"
  /\ UNCHANGED <<quietVars, new_transactions, gaps, current_max>>

SpecMerge == InitMerge /\ [][MergeOnce \/ MergeAgain]_vars

\* Stores for identify_gaps: the sub-lists of the ledger (up to MaxHead)
\* with no hash twice.
VisibleLedger == LedgerIn(TOKEN_START_BLOCK, MaxHead, MaxHead)
RECURSIVE SubList(_, _, _)
SubList(txs, keep, i) ==
  IF i > Len(txs) THEN <<>>
  ELSE (IF i \in keep THEN <<txs[i]>> ELSE <<>>) \o SubList(txs, keep, i + 1)
LedgerStores ==
  { SubList(VisibleLedger, keep, 1) :
      keep \in { k \in SUBSET DOMAIN VisibleLedger :
                   \A i, j \in k : i # j =>
                      VisibleLedger[i].hash # VisibleLedger[j].hash } }

InitGaps ==
  /\ Quiet
  /\ pc = "gaps_0"
  /\ existing_txs \in LedgerStores
  /\ new_transactions = <<>>
  /\ final_txs = <<>>
  /\ gaps = <<>>
  /\ current_max = 0

\* gaps = identify_gaps(existing_txs), and current_max.
FindGaps ==
  /\ pc = "gaps_0"
  /\ gaps' = identify_gaps(existing_txs)
  /\ current_max' = CurrentMax(existing_txs)
  /\ pc' = "gaps_1"
  /\ UNCHANGED <<quietVars, existing_txs, new_transactions, final_txs>>

\* Fetch exactly those gaps, every request answered, and merge.
FillGaps ==
  /\ pc = "gaps_1"
  /\ LET r == FillGapsFrom(gaps, 1, current_max,
                           [txs |-> <<>>, hashes |-> HashesOf(existing_txs)],
                           chainHead)
     IN /\ new_transactions' = r.txs
        /\ final_txs' = Merge(existing_txs, r.txs)
  /\ pc' = "gaps_2"
  /\ UNCHANGED <<quietVars, existing_txs, gaps, current_max>>

SpecGaps == InitGaps /\ [][FindGaps \/ FillGaps]_vars

\* ------------------------------------------- fetch_range with its records
\* One call of fetch_range on a target range of its own, together with what
\* the code records on the way: self.errors, self.transactions_fetched, and
\* (history) the windows it has finished with.
InitFetch ==
  /\ storeFile = NoFile /\ tempFile = NoFile
  /\ chainHead = MaxHead /\ faults = 0
  /\ pc = "fetch"
  /\ existing_txs = <<>> /\ existing_hashes = {} /\ gaps = <<>> /\ gapIdx = 1
  /\ current_max = 0 /\ current_block = MaxHead
  /\ new_transactions = <<>> /\ final_txs = <<>>
  /\ phase = "none" /\ saveRet = "none"
  /\ \E start \in TOKEN_START_BLOCK .. MaxHead : \E end \in start .. MaxHead :
        /\ stack = << Frame(start, end, MAX_BLOCK_RANGE) >>
        /\ topFetch = [done |-> FALSE, start |-> start, end |-> end,
                       head0 |-> MaxHead, result |-> <<>>, clean |-> TRUE,
                       calls |-> << [s |-> start, e |-> end,
                                     phase |-> "none"] >>]
  /\ attempt = 0
  /\ QuietKeys
  /\ fileAtCall = NoFile /\ fileNew = <<>> /\ saveState = "none"
  /\ abandoned = {} /\ lastResp = NoResp
  /\ now = START_TIME /\ last_request_time = 0 /\ sendTimes = <<NONE, NONE>>
  /\ readerView = NoView
  /\ errors = <<>> /\ transactions_fetched = 0 /\ windows = <<>>
  /\ apikey = NONE
  /\ status = NoStatus
  /\ writerPc = "idle" /\ writerTxs = <<>> /\ writerSaved = <<>>
  /\ ScanIdle

logRest == <<clockVars, keyVars, readerView, toolVars>>

\* The window fetch_range is at, and how it ended.
Window(f, how) == [s |-> f.current_start, e |-> CurrentEnd(f), how |-> how]

\* update_status("fetching", ...) and the query with its params, built once
\* before the retry loop: 'apikey': self._get_api_key().
LoggedFetchQuery ==
  /\ FetchQueryCore
  /\ apikey' = current_key_index
  /\ status' = [errors |-> LastErrors(errors),
                transactions_fetched |-> transactions_fetched]
  /\ UNCHANGED <<errors, transactions_fetched, windows, logRest>>

\* "self.transactions_fetched += len(sub_results)" after the recursive call.
LoggedFetchReturnSub ==
  /\ FetchReturnSubCore
  /\ transactions_fetched' = transactions_fetched + Len(Top.all_transactions)
  /\ UNCHANGED <<errors, windows, apikey, status, logRest>>

\* "self.transactions_fetched += count" where the results are added.
LoggedResults ==
  /\ IF lastResp'.added
     THEN /\ transactions_fetched' = transactions_fetched + lastResp'.count
          /\ windows' = Append(windows, Window(Top, "accepted"))
     ELSE UNCHANGED <<transactions_fetched, windows>>
  /\ UNCHANGED <<errors, apikey, status, logRest>>

LoggedRespOk == RespOkCore /\ LoggedResults

LoggedRespNoTransactions == RespNoTransactionsCore /\ LoggedResults

\* A failed attempt; message: the branch appends to self.errors.
LoggedFailedAttempt(kind, rotate, message) ==
  /\ FailedAttemptCore(kind, rotate)
  /\ errors' = IF message THEN Append(errors, kind) ELSE errors
  /\ windows' = IF attempt + 1 < MAX_RETRIES THEN windows
                ELSE Append(windows, Window(Top, "abandoned"))
  /\ UNCHANGED <<transactions_fetched, apikey, status, logRest>>

Logged429 == LoggedFailedAttempt("http_429", TRUE, TRUE)
LoggedRateLimitBody == LoggedFailedAttempt("rate_limit_body", TRUE, FALSE)
LoggedHttpError == LoggedFailedAttempt("http_error", FALSE, TRUE)
LoggedException == LoggedFailedAttempt("exception", FALSE, TRUE)

LoggedRespApiError ==
  /\ RespApiErrorCore
  /\ errors' = Append(errors, "api_error")
  /\ windows' = Append(windows, Window(Top, "abandoned"))
  /\ UNCHANGED <<transactions_fetched, apikey, status, logRest>>

\* "return all_transactions" of the outermost call.
FetchReturnTop ==
  /\ pc = "fetch"
  /\ Top.current_start > Top.end
  /\ Len(stack) = 1
  /\ topFetch' = [topFetch EXCEPT !.done = TRUE,
                                   !.result = Top.all_transactions]
  /\ stack' = <<>>
  /\ lastResp' = NoResp
  /\ pc' = "returned"
  /\ UNCHANGED <<fileVars, envVars, loopVars, attempt, current_key_index,
                 saveHist, abandoned, logVars, logRest>>

NextFetch ==
  \/ LoggedFetchQuery \/ LoggedFetchReturnSub \/ FetchReturnTop
  \/ LoggedRespOk \/ LoggedRespNoTransactions
  \/ Logged429 \/ LoggedRateLimitBody \/ LoggedHttpError \/ LoggedException
  \/ LoggedRespApiError

SpecFetch == InitFetch /\ [][NextFetch]_vars

\* The same call when the interpreter keeps running.
SpecFetchLive == SpecFetch /\ WF_vars(NextFetch)

\* --------------------------------------------- the requests and the clock
\* The HTTP requests of _make_request and get_current_block with the time
\* at which each is sent. One tick is half a second.
MaxTime == 14
\* the clock stops here
MaxLatency == 2
\* the longest time an answer takes, in ticks (the shortest is one tick)

\* _rate_limit_wait: the time at which it returns.
rate_limit_wait(t, last) ==
  LET elapsed == t - last
  IN IF elapsed < MIN_INTERVAL THEN t + (MIN_INTERVAL - elapsed) ELSE t

\* requests.get at time t.
Send(t) == sendTimes' = <<sendTimes[2], t>>

rateRest == <<fileVars, envVars, loopVars, stack, saveHist, fetchHist,
              readerView, keyVars, logVars, toolVars>>

InitRate ==
  /\ Quiet
  /\ pc = "idle"
  /\ existing_txs = <<>> /\ new_transactions = <<>> /\ final_txs = <<>>
  /\ gaps = <<>> /\ current_max = 0

\* _make_request: the rate wait and the first requests.get.
TimedMakeRequest ==
  /\ pc = "idle"
  /\ LET t == rate_limit_wait(now, last_request_time)
     IN /\ t <= MaxTime
        /\ now' = t
        /\ last_request_time' = t
        /\ Send(t)
  /\ attempt' = 0
  /\ pc' = "make_request"
  /\ UNCHANGED <<current_key_index, rateRest>>

\* An answer on which _make_request returns at once: the rows, 'No
\* transactions found', or an API error.
TimedReturn ==
  /\ pc = "make_request"
  /\ \E lat \in 1 .. MaxLatency :
        /\ now + lat <= MaxTime
        /\ now' = now + lat
  /\ pc' = "idle"
  /\ UNCHANGED <<attempt, current_key_index, last_request_time, sendTimes,
                 rateRest>>

\* The end of an attempt that did not return: the next requests.get at time
\* t, or "return None" after the last attempt.
NextAttempt(t) ==
  /\ t <= MaxTime
  /\ now' = t
  /\ IF attempt + 1 < MAX_RETRIES
     THEN /\ attempt' = attempt + 1
          /\ Send(t)
          /\ UNCHANGED pc
     ELSE /\ pc' = "idle"
          /\ UNCHANGED <<attempt, sendTimes>>
  /\ UNCHANGED <<last_request_time, rateRest>>

\* HTTP 429 or 'rate limit' in the body: rotate, time.sleep(30), continue.
TimedRateLimited ==
  /\ pc = "make_request"
  /\ current_key_index' = rotate_key(current_key_index, api_keys)
  /\ \E lat \in 1 .. MaxLatency : NextAttempt(now + lat + RATE_LIMIT_SLEEP)

\* Another HTTP status or an exception of requests.get: time.sleep(5 *
\* (attempt + 1)) unless this was the last attempt.
TimedError ==
  /\ pc = "make_request"
  /\ UNCHANGED current_key_index
  /\ \E lat \in 1 .. MaxLatency :
        NextAttempt(now + lat + (IF attempt < MAX_RETRIES - 1
                                 THEN BACKOFF_UNIT * (attempt + 1) ELSE 0))

\* get_current_block: the rate wait and its one requests.get.
TimedGetCurrentBlock ==
  /\ pc = "idle"
  /\ LET t == rate_limit_wait(now, last_request_time)
     IN /\ t <= MaxTime
        /\ now' = t
        /\ last_request_time' = t
        /\ Send(t)
  /\ pc' = "get_current_block"
  /\ UNCHANGED <<attempt, current_key_index, rateRest>>

\* Its answer, whatever it is.
TimedHeadAnswer ==
  /\ pc = "get_current_block"
  /\ \E lat \in 1 .. MaxLatency :
        /\ now + lat <= MaxTime
        /\ now' = now + lat
  /\ pc' = "idle"
  /\ UNCHANGED <<attempt, current_key_index, last_request_time, sendTimes,
                 rateRest>>

NextRate ==
  \/ TimedMakeRequest \/ TimedReturn \/ TimedRateLimited \/ TimedError
  \/ TimedGetCurrentBlock \/ TimedHeadAnswer

SpecRate == InitRate /\ [][NextRate]_vars

\* ------------------------------------------------------ the credentials
MaxKeys == 7
\* the largest credential pool

InitKeys ==
  /\ QuietRest
  /\ pc = "keys"
  /\ existing_txs = <<>> /\ new_transactions = <<>> /\ final_txs = <<>>
  /\ gaps = <<>> /\ current_max = 0
  /\ api_keys \in 1 .. MaxKeys
  /\ current_key_index \in 0 .. (api_keys - 1)
  /\ keyTrace = <<current_key_index>>

\* One call of _rotate_key, up to one more than the size of the pool.
RotateStep ==
  /\ pc = "keys"
  /\ Len(keyTrace) <= api_keys + 1
  /\ current_key_index' = rotate_key(current_key_index, api_keys)
  /\ keyTrace' = Append(keyTrace, current_key_index')
  /\ UNCHANGED <<fileVars, envVars, pc, loopVars, stack, attempt, saveHist,
                 fetchHist, clockVars, readerView, api_keys, logVars,
                 toolVars>>

SpecKeys == InitKeys /\ [][RotateStep]_vars

\* ================================================================= claims
Rows(txs) == {txs[i] : i \in DOMAIN txs}
WithHash(txs, h) == {i \in DOMAIN txs : txs[i].hash = h}
CapThreshold == MAX_RESULTS_PER_QUERY - CAP_MARGIN
RateLimitKinds == {"http_429", "rate_limit_body"}

\* C1: while save_transactions has not completed its rename (call in
\* progress, interrupted, or failed at mkstemp, at the write or at the
\* rename) transactions.json is what it was when the call began; after the
\* rename it is the complete new list; it is never a partial document.
C1_AtomicSave ==
  /\ ~storeFile.torn
  /\ saveState \in {"in_progress", "failed"} => storeFile = fileAtCall
  /\ saveState = "ok" => storeFile = File(fileNew, FALSE)

\* C1 witness: the process was interrupted between the complete write of the
\* temporary file and the rename, with new content pending.
C1_Witness ==
  /\ pc = "stopped"
  /\ saveState = "in_progress"
  /\ tempFile = File(fileNew, FALSE)
  /\ fileNew # storeFile.recs

\* C3: the persisted store never holds two records with the same hash.
C3_NoDuplicateHash ==
  \A i, j \in DOMAIN storeFile.recs :
     i # j => storeFile.recs[i].hash # storeFile.recs[j].hash

\* C3 witness: a fetch returned two rows with one hash and the cycle's save
\* has persisted that hash.
C3_Witness ==
  /\ saveState = "ok"
  /\ topFetch.done
  /\ \E i, j \in DOMAIN topFetch.result :
        /\ i # j
        /\ topFetch.result[i].hash = topFetch.result[j].hash
        /\ WithHash(storeFile.recs, topFetch.result[i].hash) # {}

HandlesList == pc = "request" /\ pc' = "fetch" /\ lastResp'.kind = "ok"

\* C5 as amended: a result at or within the margin of the cap, received with
\* a window size above MIN_BLOCK_RANGE, is not added; fetch_range calls
\* itself on the same window, from the same start block, with the window
\* size halved (not below the minimum), and the caller's cursor and list stay
\* as they are. A capped result is added only at the minimum window size.
C5_HalveAboveMinimum ==
  [][ (HandlesList /\ lastResp'.count >= CapThreshold) =>
        IF Top.block_range > MIN_BLOCK_RANGE
        THEN /\ ~lastResp'.added
             /\ Len(stack') = Len(stack) + 1
             /\ stack'[Len(stack)] = Top
             /\ stack'[Len(stack')].start = Top.current_start
             /\ stack'[Len(stack')].current_start = Top.current_start
             /\ stack'[Len(stack')].end = CurrentEnd(Top)
             /\ stack'[Len(stack')].all_transactions = <<>>
             /\ stack'[Len(stack')].block_range < Top.block_range
             /\ stack'[Len(stack')].block_range =
                   Max2(Top.block_range \div 2, MIN_BLOCK_RANGE)
        ELSE /\ lastResp'.added
             /\ Top.block_range = MIN_BLOCK_RANGE ]_vars

\* C5 witness: a capped result was just discarded and the halved call on the
\* same window is open.
C5_Witness ==
  /\ pc = "fetch"
  /\ lastResp.kind = "ok"
  /\ lastResp.count >= CapThreshold
  /\ ~lastResp.added
  /\ Len(stack) > 1
  /\ Top.start = lastResp.s
  /\ Top.current_start = lastResp.s
  /\ Top.block_range < lastResp.range

\* C5 as claimed: no capped result is ever added (added is FALSE exactly
\* when fetch_range has called itself with the halved window instead).
C5_Original ==
  (lastResp.kind = "ok" /\ lastResp.count >= CapThreshold) => ~lastResp.added

\* C6: a fetch_range call of the loop in which no window was given up, over a
\* range whose every minimum-size window (one block) holds fewer rows than
\* the cap threshold, returns exactly the rows the ledger holds in the range
\* (all that existed at the call, none from outside), and a merge of the
\* loop's lists then holds each of their hashes exactly once.
C6_Precondition ==
  /\ topFetch.done
  /\ topFetch.clean
  /\ \A b \in topFetch.start .. topFetch.end :
        Len(LedgerIn(b, b, chainHead)) < CapThreshold

C6_CompleteFetch ==
  C6_Precondition =>
    /\ Rows(LedgerIn(topFetch.start, topFetch.end, topFetch.head0))
          \subseteq Rows(topFetch.result)
    /\ Rows(topFetch.result)
          \subseteq Rows(LedgerIn(topFetch.start, topFetch.end, chainHead))
    /\ \A tx \in Rows(topFetch.result) :
          Cardinality(WithHash(Merge(existing_txs, new_transactions), tx.hash)) = 1
    /\ pc \in {"check", "caught_up", "continue"} =>
          \A tx \in Rows(topFetch.result) :
             Cardinality(WithHash(final_txs, tx.hash)) = 1

\* C6 witness: such a call has returned after a truncated answer (more rows
\* in the window than the cap) made it halve the window.
C6_Witness ==
  /\ C6_Precondition
  /\ pc = "check"
  /\ Len(topFetch.result) > MAX_RESULTS_PER_QUERY
  /\ Rows(topFetch.result) \subseteq Rows(final_txs)

\* C9 as claimed: after a rate-limit answer the same window is still being
\* requested: the cursor has not moved and the window was not given up.
C9_RateLimitKeepsWindow ==
  (lastResp.kind \in RateLimitKinds /\ pc # "stopped") =>
     /\ pc = "request"
     /\ Top.current_start = lastResp.s
     /\ CurrentEnd(Top) = lastResp.e
     /\ \A w \in abandoned : ~(w.s = lastResp.s /\ w.e = lastResp.e)

\* C10 as claimed, in its most favourable reading: when a cycle has computed
\* its gaps, every window given up earlier that holds transfers, and from
\* which the store holds no record, lies inside one of the gaps (or inside
\* the range the extension phase is about to fetch).
InGap(w, g) ==
  /\ g[1] <= w.s
  /\ w.e <= (IF g[2] = NONE THEN current_block ELSE g[2])
C10_AbandonedWindowReoffered ==
  (pc = "gaps" /\ gapIdx = 1) =>
     \A w \in abandoned :
        ( /\ LedgerIn(w.s, w.e, chainHead) # <<>>
          /\ BlocksOf(existing_txs) \cap (w.s .. w.e) = {} )
        => \/ \E k \in DOMAIN gaps : InGap(w, gaps[k])
           \/ (current_max < w.s /\ w.e <= current_block)


\* C2: merging the same batch a second time into the result of the first
\* merge gives the same list of records.
C2_MergeIdempotent == pc = "merge_2" => final_txs = existing_txs

\* C2 witness: the second merge has run on a batch that holds a hash of the
\* store, a new hash twice, and a row without hash.
C2_Witness ==
  /\ pc = "merge_2"
  /\ \E i, j \in DOMAIN new_transactions :
        /\ i # j
        /\ new_transactions[i].hash # 0
        /\ new_transactions[i].hash = new_transactions[j].hash
  /\ Len(existing_txs) > 1

\* The gaps the claim describes, for a store with block set B.
Consecutive(B, a, b) == a \in B /\ b \in B /\ a < b /\ ~\E c \in B : a < c /\ c < b
ClaimedGaps(B, origin, tol) ==
  (IF B # {} /\ SetMin(B) > origin THEN {<<origin, SetMin(B) - 1>>} ELSE {})
  \cup {<<a + 1, b - 1>> : <<a, b>> \in
           {p \in B \X B : Consecutive(B, p[1], p[2]) /\ p[2] - p[1] > tol}}
ListsExactly(gs, G) ==
  /\ {gs[i] : i \in DOMAIN gs} = G
  /\ Len(gs) = Cardinality(G)
  /\ \A i, j \in DOMAIN gs : i < j => gs[i][1] < gs[j][1]

\* C7 as claimed: identify_gaps returns, ascending, the leading gap and the
\* internal gaps, and nothing else.
C7_ExactGaps ==
  pc = "gaps_1" =>
     ListsExactly(gaps, ClaimedGaps(BlocksOf(existing_txs), TOKEN_START_BLOCK,
                                    GAP_TOLERANCE))

\* The example of the claim: blocks {1000, 1001, 4000}, tolerance 500,
\* origin 1000.
ExampleStore ==
  << [hash |-> 1, blockNumber |-> 1000, v |-> 0],
     [hash |-> 2, blockNumber |-> 1001, v |-> 0],
     [hash |-> 3, blockNumber |-> 4000, v |-> 0] >>

\* C7 as amended: for a store that holds records identify_gaps returns,
\* ascending, exactly the leading gap (if the lowest stored block is above
\* the origin) and the internal gaps between consecutive distinct stored
\* blocks more than the tolerance apart; for the empty store it returns the
\* single open-ended entry (origin, None). The example gives [1002, 3999].
C7_ExactGapsOfNonEmptyStore ==
  /\ pc = "gaps_1" =>
        IF existing_txs = <<>>
        THEN gaps = << <<TOKEN_START_BLOCK, NONE>> >>
        ELSE ListsExactly(gaps, ClaimedGaps(BlocksOf(existing_txs),
                                            TOKEN_START_BLOCK, GAP_TOLERANCE))
  /\ IdentifyGapsWith(ExampleStore, 1000, 500) = << <<1002, 3999>> >>

\* C7 witness: identify_gaps has returned a leading gap and an internal gap
\* for a store that also has two stored blocks exactly the tolerance apart.
C7_Witness ==
  /\ pc = "gaps_1"
  /\ Len(gaps) = 2
  /\ gaps[1][1] = TOKEN_START_BLOCK
  /\ \E a, b \in BlocksOf(existing_txs) :
        Consecutive(BlocksOf(existing_txs), a, b) /\ b - a = GAP_TOLERANCE

\* C8 as claimed (stated for the stores that hold a record): after fetching
\* exactly the gaps, every request answered, and merging, identify_gaps
\* finds no gap.
C8_NoGapAfterFill ==
  (pc = "gaps_2" /\ existing_txs # <<>>) => identify_gaps(final_txs) = <<>>

\* C11 as claimed: any two consecutive HTTP requests (range queries, their
\* retries, the first request after a failed window, chain-head queries) are
\* sent at least the minimum interval apart.
C11_MinInterval ==
  sendTimes[1] # NONE => sendTimes[2] - sendTimes[1] >= MIN_INTERVAL

\* C12 as claimed: when persisting has failed (at mkstemp, at the write or
\* at the rename) the cycle does not go on to its caught-up test, nor into
\* CaughtUp or the continue delay, with a list that is not the persisted one.
C12_PersistFailureAborts ==
  (saveState = "failed" /\ pc \in {"check", "caught_up", "continue"})
     => final_txs = storeFile.recs

\* The phase of the cycle a position of run_continuous belongs to: 1 load
\* and head, 2 gap filling, 3 extension, 4 final save, 5 caught-up test,
\* 6 the sleep; 0 outside a cycle (error state, stopped).
SavePcs == {"save", "save_write", "save_rename", "save_cleanup"}
CyclePhase(p, ph, ret) ==
  CASE p \in {"start", "get_block"} -> 1
    [] p = "gaps" -> 2
    [] p \in {"fetch", "request"} -> IF ph = "gap" THEN 2 ELSE 3
    [] p \in SavePcs -> IF ret = "gaps" THEN 2 ELSE 4
    [] p = "final" -> 4
    [] p = "check" -> 5
    [] p \in {"caught_up", "continue"} -> 6
    [] OTHER -> 0

\* C13: within a cycle the phases only move forward (load and head, gaps,
\* extension, final save, caught-up test, one of the two sleeps); the gap
\* phase is left only when every detected gap has been handled; the
\* extension is the call fetch_range(current_max + 1, current_block) and is
\* left out only when current_max has reached the head; a new cycle starts
\* only after a sleep or from the error state, and always at the load.
C13_PhaseOrder ==
  [][ LET here == CyclePhase(pc, phase, saveRet)
          next == CyclePhase(pc', phase', saveRet')
      IN \/ pc' \in {"error", "stopped"}
         \/ /\ pc \in {"error", "stopped", "caught_up", "continue"}
            /\ pc' \in {pc, "start"}
         \/ /\ here \in 1 .. 5
            /\ next >= here
            /\ pc = "check" => pc' \in {"check", "caught_up", "continue"}
            /\ (here = 2 /\ next > 2) =>
                  /\ gapIdx > Len(gaps)
                  /\ next = 3 => /\ current_max < current_block
                                 /\ stack'[1].start = current_max + 1
                                 /\ stack'[1].end = current_block
                  /\ next # 3 => next = 4 /\ current_max >= current_block
            /\ (here = 1 /\ next > 1) => next = 2
            /\ (here = 3 /\ next > 3) => next = 4
            /\ (here = 4 /\ next > 4) => next = 5
            /\ (here = 5 /\ next > 5) => next = 6 ]_vars

\* C13 witness: a cycle that filled a gap, extended to the head and saved
\* is in one of its two sleeps, after an earlier cycle ended in the error
\* state.
C13_Witness ==
  /\ pc \in {"caught_up", "continue"}
  /\ Len(gaps) > 0 /\ gapIdx > Len(gaps)
  /\ phase = "extend" /\ topFetch.done
  /\ saveState = "ok"
  /\ faults > 0

\* The highest block among the records of transactions.json.
StoredMax ==
  IF storeFile.recs # <<>> THEN SetMax(BlocksOf(storeFile.recs)) ELSE 0

\* C14 as claimed: the loop is in CaughtUp only if the highest block of the
\* persisted store is within the tolerance of the head the cycle works with.
C14_CaughtUpOnlyNearHead ==
  pc = "caught_up" => StoredMax >= current_block - CAUGHT_UP_TOLERANCE

\* C15 as claimed: the loop has stopped only with no store write in
\* progress: a save_transactions call that has begun to write has completed
\* (renamed, or failed and cleaned up) before the loop exits.
C15_StopsBetweenSteps ==
  pc = "stopped" => saveState # "in_progress"

\* C16: what a reader gets from transactions.json, at whatever moment of
\* the loop it reads, is a complete document with records: the list the file
\* held when the current save_transactions call began as long as that call
\* has not renamed, and the call's complete new list once it has.
C16_ReaderSeesOldOrNew ==
  readerView.read =>
    /\ ~readerView.torn
    /\ readerView.recs # <<>>
    /\ saveState \in {"in_progress", "failed"} =>
          readerView.recs = fileAtCall.recs
    /\ saveState = "ok" => readerView.recs = fileNew

\* C16 witness: a reader has read the old list while the complete new list
\* sits in the temporary file, a moment before the rename.
C16_Witness ==
  /\ readerView.read
  /\ pc = "save_rename"
  /\ tempFile = File(fileNew, FALSE)
  /\ readerView.recs # fileNew

\* C17: the active index is always one of 0 .. n-1; each rotation makes the
\* next credential in pool order active, the first after the last; and n
\* rotations in a row make each of the n credentials active exactly once and
\* end at the credential they started from.
C17_RoundRobin ==
  /\ current_key_index \in 0 .. (api_keys - 1)
  /\ \A i \in 1 .. (Len(keyTrace) - 1) :
        keyTrace[i + 1] = IF keyTrace[i] = api_keys - 1 THEN 0
                          ELSE keyTrace[i] + 1
  /\ Len(keyTrace) > api_keys =>
        /\ keyTrace[api_keys + 1] = keyTrace[1]
        /\ \A k \in 0 .. (api_keys - 1) :
              Cardinality({i \in 2 .. (api_keys + 1) : keyTrace[i] = k}) = 1

\* C17 witness: a pool of at least three credentials has been rotated once
\* round, starting from a credential that is not the first.
C17_Witness ==
  /\ pc = "keys"
  /\ api_keys >= 3
  /\ keyTrace[1] # 0
  /\ Len(keyTrace) = api_keys + 1

\* The positions of a list that hold the first row of their hash.
FirstOfHash(txs) ==
  {i \in DOMAIN txs :
     /\ txs[i].hash # 0
     /\ \A j \in 1 .. (i - 1) : txs[j].hash # txs[i].hash}

\* C18: the merged list is, in order, the existing records that are the
\* first of their hash followed by the incoming records whose hash was not
\* seen before (not in the existing list, not earlier in the batch): a hash
\* of the existing list keeps its existing record, never an incoming one.
C18_FirstOccurrenceWins ==
  pc = "merge_1" =>
    LET old == FirstOfHash(existing_txs)
        seen == {existing_txs[i].hash : i \in DOMAIN existing_txs}
        fresh == {i \in FirstOfHash(new_transactions) :
                    new_transactions[i].hash \notin seen}
        Before(S, i) == Cardinality({j \in S : j <= i})
    IN /\ Len(final_txs) = Cardinality(old) + Cardinality(fresh)
       /\ \A i \in old : final_txs[Before(old, i)] = existing_txs[i]
       /\ \A i \in fresh :
             final_txs[Cardinality(old) + Before(fresh, i)] =
                new_transactions[i]

\* C18 witness: the batch brought another record for a hash of the existing
\* list, and a record with a hash not seen before.
C18_Witness ==
  /\ pc = "merge_1"
  /\ \E i \in DOMAIN existing_txs, j \in DOMAIN new_transactions :
        /\ existing_txs[i].hash # 0
        /\ existing_txs[i].hash = new_transactions[j].hash
        /\ existing_txs[i] # new_transactions[j]
  /\ Len(final_txs) > Len(existing_txs)

\* C19 as amended: every gap identify_gaps returned for the cycle ends below
\* the highest stored block (current_max), except the single open-ended
\* entry (origin, None) it returns for the empty store; the gap loop skips
\* that entry, and every fetch_range call of the gap phase, with all its
\* windows, lies below current_max.
C19_NoTrailingGap ==
  /\ \A i \in DOMAIN gaps :
        IF gaps[i][2] = NONE
        THEN /\ gaps = << <<TOKEN_START_BLOCK, NONE>> >>
             /\ current_max = TOKEN_START_BLOCK - 1
        ELSE gaps[i][1] <= gaps[i][2] /\ gaps[i][2] < current_max
  /\ (pc \in {"fetch", "request"} /\ phase = "gap") =>
        \A k \in DOMAIN stack : stack[k].end < current_max

\* C19 witness: the gap phase is querying a window of a gap that ends just
\* below the highest stored block.
C19_Witness ==
  /\ pc = "request"
  /\ phase = "gap"
  /\ gaps[gapIdx][2] = current_max - 1
  /\ CurrentEnd(Top) = current_max - 1

\* C19 as claimed: every gap identify_gaps returned, for any store, has a
\* defined upper bound below the highest stored block.
C19_Original ==
  \A i \in DOMAIN gaps : gaps[i][2] # NONE /\ gaps[i][2] < current_max

\* C20 as claimed: when the provider has answered a range query with a
\* fatal API error (status 0, a message that is neither 'No transactions
\* found' nor a rate limit), the loop is in the error state.
C20_FatalErrorSurfaced ==
  lastResp.kind = "api_error" => pc = "error"

\* C21 as claimed: the query issued for the start block of a query that was
\* found capped covers strictly fewer blocks than the capped query (a
\* recursive call exists only for a capped window of its caller, and its
\* first query starts at that window's start).
C21_NarrowerAfterCap ==
  (pc = "request" /\ Len(stack) >= 2 /\ Top.current_start = Top.start) =>
     LET caller == stack[Len(stack) - 1]
     IN /\ Top.current_start = caller.current_start
        /\ CurrentEnd(Top) < CurrentEnd(caller)

\* C22 as claimed: a capped result is added only at the minimum window size,
\* and then the call leaves a record that the window may be incomplete
\* (self.errors is the one record of trouble the code keeps and reports).
C22_CappedAcceptanceFlagged ==
  (lastResp.kind = "ok" /\ lastResp.added /\ IsCapped(lastResp.count)) =>
     /\ lastResp.range = MIN_BLOCK_RANGE
     /\ errors # <<>>

\* C23: the windows a fetch_range call has finished with (accepted or given
\* up) are well-formed, follow one another without gap or overlap from the
\* start of the target, stay inside the target, the cursor of the innermost
\* call stands right after the last of them, and when the call has returned
\* the last window ends at the end of the target.
C23_WindowsPartitionTarget ==
  /\ \A i \in DOMAIN windows :
        /\ windows[i].s <= windows[i].e
        /\ windows[i].s >= topFetch.start /\ windows[i].e <= topFetch.end
  /\ windows # <<>> => windows[1].s = topFetch.start
  /\ \A i \in 1 .. (Len(windows) - 1) : windows[i + 1].s = windows[i].e + 1
  /\ pc \in {"fetch", "request"} =>
        Top.current_start = IF windows = <<>> THEN topFetch.start
                            ELSE windows[Len(windows)].e + 1
  /\ pc = "returned" =>
        windows # <<>> /\ windows[Len(windows)].e = topFetch.end

\* C23 witness: a call has returned after a capped window was split, with
\* windows it accepted and a window it gave up.
C23_Witness ==
  /\ pc = "returned"
  /\ Len(windows) >= 3
  /\ \E i, j \in DOMAIN windows :
        windows[i].how = "accepted" /\ windows[j].how = "abandoned"
  /\ \E i \in DOMAIN windows :
        windows[i].e - windows[i].s + 1 < MAX_BLOCK_RANGE
        /\ windows[i].e < topFetch.end

\* How many times the window size can be halved from the default to the
\* minimum.
RECURSIVE Halvings(_)
Halvings(block_range) ==
  IF block_range <= MIN_BLOCK_RANGE THEN 0
  ELSE 1 + Halvings(NewRange(block_range))

\* A request is at most the MAX_RETRIES-th of its window, and the calls open
\* for one start block are at most one per halving, each with a smaller
\* window size than its caller.
FetchBounded ==
  /\ pc = "request" => attempt + 1 <= MAX_RETRIES
  /\ Len(stack) <= 1 + Halvings(MAX_BLOCK_RANGE)
  /\ \A k \in 2 .. Len(stack) :
        stack[k].block_range < stack[k - 1].block_range

\* A request that is over has moved the cursor of its call forward or opened
\* a call with a smaller window; a call that returns moves its caller's
\* cursor forward; no step moves a cursor back.
CursorAdvances ==
  /\ (pc = "request" /\ pc' = "fetch") =>
        \/ Len(stack') = Len(stack) + 1
        \/ /\ Len(stack') = Len(stack)
           /\ stack'[Len(stack)].current_start > Top.current_start
  /\ (pc = "fetch" /\ Len(stack') = Len(stack) - 1 /\ Len(stack') > 0) =>
        stack'[Len(stack')].current_start >
           stack[Len(stack')].current_start
  /\ \A k \in DOMAIN stack : k \in DOMAIN stack' =>
        stack'[k].current_start >= stack[k].current_start

\* C24: every call of fetch_range returns, whatever the answers: a window
\* gets at most MAX_RETRIES requests, the re-queries of one start block are
\* bounded by the halvings from the default to the minimum window size, and
\* every iteration moves the cursor forward.
C24_FetchTerminates ==
  /\ []FetchBounded
  /\ [][CursorAdvances]_vars
  /\ <>(pc = "returned")

\* C24 witness: a call has returned with every window of its target given
\* up, each after MAX_RETRIES failed requests.
C24_Witness ==
  /\ pc = "returned"
  /\ windows # <<>>
  /\ \A i \in DOMAIN windows : windows[i].how = "abandoned"
  /\ faults >= MAX_RETRIES

\* The store holds every transfer of the ledger up to the head.
StoreComplete ==
  {Ledger[i].hash : i \in {j \in DOMAIN Ledger :
                               Ledger[j].blockNumber <= chainHead}}
     \subseteq {storeFile.recs[i].hash : i \in DOMAIN storeFile.recs}

\* C25 as claimed: a cycle that ran without a failed request against a head
\* that has not moved, on a store that already held every transfer up to
\* the head (nothing was fetched that the store did not have), does not end
\* in the short continue delay.
C25_QuietChainCaughtUp ==
  ~ ( /\ pc = "continue"
      /\ faults = 0
      /\ current_block = chainHead
      /\ StoreComplete
      /\ existing_txs = storeFile.recs
      /\ new_transactions = <<>>
      /\ final_txs = storeFile.recs )

\* The most rows the ledger holds in one of the gaps of the cycle (the
\* open-ended entry of the empty store is skipped by the loop).
MaxGapRows ==
  LET rows(g) == IF g[2] = NONE THEN 0
                 ELSE Len(LedgerIn(g[1], g[2], MaxHead))
  IN IF gaps = <<>> THEN 0
     ELSE SetMax({rows(gaps[i]) : i \in DOMAIN gaps})

\* C26 as claimed: at every moment of a cycle the records fetched and not
\* yet handed to save_transactions are at most the threshold plus the
\* result of one gap.
C26_UnpersistedBounded ==
  Len(new_transactions) <= SAVE_THRESHOLD + MaxGapRows

\* The records of transactions.json, none if the file does not exist.
FileRecs == IF storeFile.exists THEN storeFile.recs ELSE <<>>

\* C27: the list a cycle starts from is the content of the store file at
\* that moment, and the cycle's gap list, checkpoint (current_max) and hash
\* set are functions of that content alone; the batch starts empty.
C27_CheckpointFromStore ==
  [][ /\ (pc = "start" /\ pc' = "get_block") => existing_txs' = FileRecs
      /\ (pc = "get_block" /\ pc' = "gaps") =>
            /\ existing_txs = FileRecs
            /\ gaps' = identify_gaps(FileRecs)
            /\ current_max' = CurrentMax(FileRecs)
            /\ existing_hashes' = HashesOf(FileRecs)
            /\ new_transactions' = <<>>
            /\ gapIdx' = 1 ]_vars

\* C27 witness: a cycle has computed its gaps from the store file while the
\* memory of the cycle before, whose save failed, holds records the file
\* does not.
C27_Witness ==
  /\ pc = "gaps"
  /\ gapIdx = 1
  /\ saveState = "failed"
  /\ existing_txs = FileRecs
  /\ final_txs # FileRecs
  /\ gaps = identify_gaps(FileRecs)
  /\ gaps # identify_gaps(final_txs)

\* ------------------------------------ the other writers of the store file
\* fetch_backwards.main beside the running loop. Like
\* RoutescanFetcher.save_transactions (main.py) and
\* RobustBackfiller.run_backfill, it loads transactions.json, fetches,
\* merges first-wins and writes the list back with open(name, 'w') and
\* json.dump into the file itself.
writerRest == <<tempFile, envVars, pc, loopVars, fetchVars, saveHist,
                fetchHist, clockVars, readerView, keyVars, logVars, scanVars>>

\* The process has ended without writing: a traceback (no file, a file
\* that is not a JSON document, min() of an empty list), "Already have all
\* earlier transactions", or nothing new to add.
WriterEnds(txs) ==
  /\ writerPc' = "idle"
  /\ writerTxs' = txs
  /\ UNCHANGED <<storeFile, writerSaved>>

\* "Load existing transactions" and "Find our earliest block".
WriterLoad ==
  /\ writerPc = "idle"
  /\ IF ~storeFile.exists \/ storeFile.torn \/ storeFile.recs = <<>>
     THEN WriterEnds(<<>>)
     ELSE IF SetMin(BlocksOf(storeFile.recs)) <= TOKEN_START_BLOCK
     THEN WriterEnds(storeFile.recs)
     ELSE /\ writerTxs' = storeFile.recs
          /\ writerPc' = "loaded"
          /\ UNCHANGED <<storeFile, writerSaved>>
  /\ UNCHANGED writerRest

\* fetch_all_transactions(token_start_block, our_min_block - 1), the filter
\* on existing_hashes, transactions.extend and the dict of unique hashes.
\* The fetcher returns the rows of the range or, on errors, none of them.
WriterFetch ==
  /\ writerPc = "loaded"
  /\ \E complete \in BOOLEAN :
       LET our_min_block == SetMin(BlocksOf(writerTxs))
           fetched == IF complete
                      THEN LedgerIn(TOKEN_START_BLOCK, our_min_block - 1,
                                    chainHead)
                      ELSE <<>>
           unique_new == SelectSeq(fetched,
                           LAMBDA tx : HashOf(tx) \notin HashesOf(writerTxs))
       IN IF unique_new = <<>>
          THEN WriterEnds(writerTxs)
          ELSE /\ writerTxs' = Deduplicate(writerTxs \o unique_new, {}, <<>>)
               /\ writerPc' = "open"
               /\ UNCHANGED <<storeFile, writerSaved>>
  /\ UNCHANGED writerRest

\* open('transactions.json', 'w'): the file is truncated where it lies (or
\* created), and is no JSON document until the dump has finished.
WriterOpen ==
  /\ writerPc = "open"
  /\ storeFile' = File(<<>>, TRUE)
  /\ writerPc' = "dump"
  /\ UNCHANGED <<writerTxs, writerSaved, writerRest>>

\* The file the writer holds open is still transactions.json: the loop's
\* rename puts another file under the name, and the writer's file, which
\* has lost its name, takes what is written from then on.
WriterHoldsStore == storeFile = File(<<>>, TRUE)

\* json.dump and the close of the with block.
WriterDump ==
  /\ writerPc = "dump"
  /\ storeFile' = IF WriterHoldsStore THEN File(writerTxs, FALSE)
                  ELSE storeFile
  /\ writerSaved' = IF WriterHoldsStore THEN writerTxs ELSE writerSaved
  /\ writerPc' = "idle"
  /\ UNCHANGED <<writerTxs, writerRest>>

\* The process is killed (or the machine loses power) during json.dump:
\* the file holds a proper prefix of the document.
WriterCrash ==
  /\ writerPc = "dump"
  /\ \E n \in 0 .. (Len(writerTxs) - 1) :
        storeFile' = IF WriterHoldsStore
                     THEN File(SubSeq(writerTxs, 1, n), TRUE)
                     ELSE storeFile
  /\ writerPc' = "crashed"
  /\ UNCHANGED <<writerTxs, writerSaved, writerRest>>

\* The tool is started again.
WriterRestart ==
  /\ writerPc = "crashed"
  /\ writerPc' = "idle"
  /\ UNCHANGED <<storeFile, writerTxs, writerSaved, writerRest>>

\* The loop with a disk that does not fail, and the tool run beside it.
NextWriters ==
  \/ LoadStore \/ GetCurrentBlock \/ GetCurrentBlockFails
  \/ NextGap \/ StartExtend
  \/ FetchQuery \/ FetchReturnSub \/ FetchReturnLoop
  \/ RespOk \/ RespNoTransactions \/ Resp429 \/ RespRateLimitBody
  \/ RespHttpError \/ RespException \/ RespApiError
  \/ FinalSave \/ SaveBegin \/ SaveWrite \/ SaveRename
  \/ CheckCaughtUp \/ Sleep \/ ErrorCooldown
  \/ WriterLoad \/ WriterFetch \/ WriterOpen \/ WriterDump \/ WriterCrash
  \/ WriterRestart

SpecWriters == Init /\ [][NextWriters]_vars

\* C28 as claimed: every writer of transactions.json writes it atomically,
\* so that when a writer has died during its write the file is a complete
\* document, the old one or the new one, never a truncated or half-written
\* one.
C28_OtherWritersAtomic ==
  writerPc = "crashed" =>
     /\ storeFile.exists
     /\ ~storeFile.torn

\* C29 as claimed: when the loop's save_transactions has replaced the store
\* file, every record the other writer has written to the store is in it,
\* whether it was written before the loop's load or between the load and
\* the save.
C29_InterleavedWritersLoseNothing ==
  ( /\ saveState = "ok"
    /\ storeFile = File(fileNew, FALSE) )
  => HashesOf(writerSaved) \subseteq HashesOf(storeFile.recs)

\* identify_gaps has just returned: the gaps are those of existing_txs.
GapsJustComputed == pc = "gaps" /\ gapIdx = 1

\* The window [s, e] lies inside [lo, hi] and holds a block.
WindowInside(s, e, lo, hi) == lo <= s /\ s <= e /\ e <= hi

\* C30 as amended: every gap identify_gaps returns for a store that holds a
\* record has defined bounds with start <= end, the gaps are pairwise
\* disjoint and hold no stored block; for the empty store identify_gaps
\* returns the one open-ended entry (TOKEN_START_BLOCK, None), for which
\* the loop issues no query. Every query fetch_range issues has
\* start <= end and lies inside the range of its call, of every call
\* around it and of the loop's target.
C30_RangesWellFormed ==
  /\ \A i \in DOMAIN gaps :
        IF gaps[i][2] = NONE
        THEN gaps = << <<TOKEN_START_BLOCK, NONE>> >>
        ELSE gaps[i][1] <= gaps[i][2]
  /\ \A i, j \in DOMAIN gaps :
        (i # j /\ gaps[i][2] # NONE /\ gaps[j][2] # NONE) =>
           (gaps[i][2] < gaps[j][1] \/ gaps[j][2] < gaps[i][1])
  /\ GapsJustComputed =>
        /\ (gaps = << <<TOKEN_START_BLOCK, NONE>> >>) <=> (existing_txs = <<>>)
        /\ \A i \in DOMAIN gaps : \A b \in BlocksOf(existing_txs) :
              gaps[i][2] # NONE => ~(gaps[i][1] <= b /\ b <= gaps[i][2])
  /\ pc = "request" =>
        /\ \A k \in DOMAIN stack :
              WindowInside(Top.current_start, CurrentEnd(Top),
                           stack[k].start, stack[k].end)
        /\ WindowInside(Top.current_start, CurrentEnd(Top),
                        topFetch.start, topFetch.end)
        /\ phase = "gap" =>
              /\ gaps[gapIdx][2] # NONE
              /\ WindowInside(Top.current_start, CurrentEnd(Top),
                              gaps[gapIdx][1], gaps[gapIdx][2])
        /\ phase = "extend" =>
              WindowInside(Top.current_start, CurrentEnd(Top),
                           current_max + 1, current_block)

\* C30 witness: with two gaps identified, a recursive call of fetch_range
\* is querying a window that is shorter than its own target, inside a gap.
C30_Witness ==
  /\ pc = "request"
  /\ phase = "gap"
  /\ Len(gaps) = 2
  /\ Len(stack) = 2
  /\ CurrentEnd(Top) < Top.end

\* C30 as claimed: every gap identify_gaps has returned, for any store, has
\* defined bounds with start <= end.
C30_Original ==
  \A i \in DOMAIN gaps : gaps[i][2] # NONE /\ gaps[i][1] <= gaps[i][2]

\* C31 as claimed: when a rate-limit answer (HTTP 429 or 'rate limit' in the
\* body) has rotated the credential and the request for the window is about
\* to be issued again, the key in its params is the newly active one.
C31_RetryUsesRotatedKey ==
  ( /\ pc = "request"
    /\ attempt > 0
    /\ lastResp.kind \in {"http_429", "rate_limit_body"} )
  => apikey = current_key_index

\* C32 as claimed: the head a cycle works with is one the provider has
\* reported, hence a block the chain has reached: no query goes beyond the
\* chain head, and the caught-up test is not made against a block number
\* above it, also when the head query has failed.
C32_HeadFromProvider ==
  /\ pc = "request" => CurrentEnd(Top) <= chainHead
  /\ pc \in {"check", "caught_up", "continue"} => current_block <= chainHead

\* The fetch_range calls the loop has made in the cycle.
Calls == topFetch.calls

\* C33: the ranges the loop has fetched in one cycle, gap by gap and then
\* to the head, hold a block each and no block twice: every gap call lies
\* below the extension call and the gap calls lie apart. With an empty
\* store no gap call is made, and the one call of the cycle is the
\* extension from the origin to the head.
C33_PhasesDisjoint ==
  /\ \A i \in DOMAIN Calls : Calls[i].s <= Calls[i].e
  /\ \A i, j \in DOMAIN Calls :
        i < j => /\ Calls[i].e < Calls[j].s
                 /\ Calls[i].phase = "gap"
  /\ (pc \in {"gaps", "fetch", "request", "final"} /\ existing_txs = <<>>
      /\ new_transactions = <<>>) =>
        \A i \in DOMAIN Calls :
           Calls[i] = [s |-> TOKEN_START_BLOCK, e |-> current_block,
                       phase |-> "extend"]
  /\ (pc = "final" /\ gaps = << <<TOKEN_START_BLOCK, NONE>> >>) =>
        Calls = << [s |-> TOKEN_START_BLOCK, e |-> current_block,
                    phase |-> "extend"] >>

\* C33 witness: a cycle has filled a gap that ends just below the highest
\* stored block and is extending to the head from just above it.
C33_Witness ==
  /\ pc = "request"
  /\ phase = "extend"
  /\ Len(Calls) >= 2
  /\ Calls[Len(Calls) - 1].e = current_max - 1
  /\ Calls[Len(Calls)].s = current_max + 1

\* C33 witness of the empty store: the cycle has fetched the interval from
\* the origin to the head once.
C33_WitnessEmptyStore ==
  /\ pc = "final"
  /\ gaps = << <<TOKEN_START_BLOCK, NONE>> >>
  /\ Len(Calls) = 1
  /\ new_transactions # <<>>

\* The answers that are failed request outcomes.
FailureKinds ==
  {"http_429", "rate_limit_body", "http_error", "exception", "api_error"}

\* C34 as claimed: a failed request outcome is the newest entry of
\* self.errors, and a status that has just been written lists the newest
\* entries of self.errors, so that the next status written lists the error.
C34_StatusListsLatestErrors ==
  /\ lastResp.kind \in FailureKinds =>
        /\ errors # <<>>
        /\ errors[Len(errors)] = lastResp.kind
  /\ (pc = "request" /\ attempt = 0) => status.errors = LastErrors(errors)

RECURSIVE HeldRecords(_)
\* The records fetch_range has accepted so far: those of every activation
\* on the stack (a recursive call's list has not yet been handed up).
HeldRecords(frames) ==
  IF frames = <<>> THEN 0
  ELSE Len(Head(frames).all_transactions) + HeldRecords(Tail(frames))

\* C35 as claimed: self.transactions_fetched is the number of records in
\* the results fetch_range has accepted, each counted once, and the status
\* reports that number.
C35_CounterCountsOnce ==
  /\ pc \in {"fetch", "request"} => transactions_fetched = HeldRecords(stack)
  /\ pc = "returned" => transactions_fetched = Len(topFetch.result)
  /\ (pc = "request" /\ attempt = 0) =>
        status.transactions_fetched = HeldRecords(stack)

\* ------------------------- RoutescanFetcher.fetch_all_transactions
\* The fetcher of main.py and fetch_backwards.py: one call, window by
\* window, with _make_request and its consecutive-rate-limit counter.
SCAN_BLOCK_RANGE == 4
SCAN_OFFSET == 3
SCAN_MAX_RETRIES == 2
SCAN_HEAD_FALLBACK == 18
ABSOLUTE_MAX == 24
FAR_PAST == 8
EMPTY_CHECK == 1
EMPTY_RESET == 3
FAR_AHEAD == 6
FAILURE_PAUSE == 3
BODY_WAIT_UNIT == 5
BODY_WAIT_CAP == 60
HTTP_WAIT_UNIT == 30
HTTP_WAIT_CAP == 300

MaxScanFaults == 2
MaxEnd == MaxHead + 9

scanRest == <<fileVars, envVars, pc, loopVars, fetchVars, saveHist, fetchHist,
              clockVars, readerView, keyVars, logVars, writerVars>>

\* The provider's answer to tokentx(startblock, endblock, page=1,
\* offset=10000).
ScanRows(s, e, head) == Take(LedgerIn(s, e, head), SCAN_OFFSET)

\* _convert_to_standard_format keeps hash, blockNumber and the fields that
\* tell two rows of a transaction apart (from, to, value).
ConvertRow(tx) == [hash |-> tx.hash, blockNumber |-> tx.blockNumber, v |-> tx.v]
ConvertRows(txs) == [i \in DOMAIN txs |-> ConvertRow(txs[i])]

\* The tool before the call, with the chain at MaxHead.
InitScan ==
  /\ QuietRest /\ QuietKeys
  /\ pc = "tool"
  /\ existing_txs = <<>> /\ new_transactions = <<>> /\ final_txs = <<>>
  /\ gaps = <<>> /\ current_max = 0

\* fetch_all_transactions(start_block, end_block) up to the while loop;
\* end_block 0 stands for None. _get_current_block answers the head or,
\* after its retries, the fallback.
ScanCall ==
  /\ scanPc = "idle"
  /\ \E start_block \in (TOKEN_START_BLOCK - 1) .. MaxHead :
     \E end_block \in {0} \cup ((TOKEN_START_BLOCK - 1) .. MaxEnd) :
     \E current_block_ \in {chainHead, SCAN_HEAD_FALLBACK} :
        LET target == IF end_block # 0 THEN end_block ELSE current_block_
        IN /\ scanArgs' = <<start_block, end_block>>
           /\ target_block' = target
           /\ from_block' = IF start_block > 0 THEN start_block ELSE 0
           /\ absolute_max_block' = Min2(ABSOLUTE_MAX, target + 1)
  /\ to_block' = 0
  /\ scanAttempt' = 0
  /\ consecutive_empty' = 0
  /\ all_transactions' = <<>>
  /\ scanHist' = [NoScanHist EXCEPT !.signal = scanHist.signal]
  /\ scanPc' = "loop"
  /\ UNCHANGED <<consecutive_rate_limits, scanKeyIndex, wait_time, scanFaults,
                 scanRest>>

\* The while test, the safety check, to_block and the params of the query.
ScanLoop ==
  /\ scanPc = "loop"
  /\ IF from_block < target_block /\ from_block < absolute_max_block
     THEN IF from_block > target_block + FAR_PAST
          THEN /\ scanPc' = "done"
               /\ scanHist' = [scanHist EXCEPT !.broke = TRUE]
               /\ UNCHANGED <<to_block, scanAttempt>>
          ELSE /\ to_block' = Min2(Min2(from_block + SCAN_BLOCK_RANGE - 1,
                                        target_block), absolute_max_block)
               /\ scanAttempt' = 0
               /\ scanHist' = [scanHist EXCEPT
                     !.queries = Append(@, [s |-> from_block, e |-> to_block'])]
               /\ scanPc' = "request"
     ELSE /\ scanPc' = "done"
          /\ UNCHANGED <<to_block, scanAttempt, scanHist>>
  /\ UNCHANGED <<scanArgs, target_block, absolute_max_block, from_block,
                 consecutive_empty, all_transactions, consecutive_rate_limits,
                 scanKeyIndex, wait_time, scanFaults, scanRest>>

\* status '1', message 'OK': the counter is reset, and the loop converts,
\* collects and moves on.
ScanOk ==
  /\ scanPc = "request"
  /\ ScanRows(from_block, to_block, chainHead) # <<>>
  /\ consecutive_rate_limits' = 0
  /\ consecutive_empty' = 0
  /\ all_transactions' =
        all_transactions \o ConvertRows(ScanRows(from_block, to_block, chainHead))
  /\ from_block' = to_block + 1
  /\ scanHist' = [scanHist EXCEPT !.limits = 0]
  /\ scanPc' = "loop"
  /\ UNCHANGED <<scanArgs, target_block, absolute_max_block, to_block,
                 scanAttempt, scanKeyIndex, wait_time, scanFaults, scanRest>>

\* The highest block among the collected records.
LastTxBlock == SetMax(BlocksOf(all_transactions))

\* message 'No transactions found': an empty result is returned (the
\* counter is left as it is), and the loop goes through its stop tests.
ScanNoTransactions ==
  /\ scanPc = "request"
  /\ ScanRows(from_block, to_block, chainHead) = <<>>
  /\ LET empties == consecutive_empty + 1
         far == all_transactions # <<>> /\ to_block - LastTxBlock > FAR_AHEAD
     IN IF target_block > 0 /\ to_block >= target_block
        THEN /\ scanPc' = "done"
             /\ consecutive_empty' = empties
             /\ scanHist' = [scanHist EXCEPT !.limits = 0]
             /\ UNCHANGED from_block
        ELSE IF far /\ (empties > EMPTY_CHECK \/ empties >= EMPTY_RESET)
        THEN /\ scanPc' = "done"
             /\ consecutive_empty' = empties
             /\ scanHist' = [scanHist EXCEPT !.limits = 0, !.broke = TRUE]
             /\ UNCHANGED from_block
        ELSE /\ scanPc' = "loop"
             /\ consecutive_empty' = IF empties >= EMPTY_RESET THEN 0
                                     ELSE empties
             /\ from_block' = to_block + 1
             /\ scanHist' = [scanHist EXCEPT !.limits = 0]
  /\ UNCHANGED <<scanArgs, target_block, absolute_max_block, to_block,
                 scanAttempt, all_transactions, consecutive_rate_limits,
                 scanKeyIndex, wait_time, scanFaults, scanRest>>

\* _make_request has returned None: the next attempt, or after the last one
\* "Failed after retries": rotate the key and move to the next range.
ScanAfterNone(key) ==
  IF scanAttempt + 1 < SCAN_MAX_RETRIES
  THEN /\ scanAttempt' = scanAttempt + 1
       /\ scanKeyIndex' = key
       /\ UNCHANGED <<scanPc, from_block, consecutive_empty>>
       /\ scanHist' = scanHist
  ELSE /\ scanKeyIndex' = rotate_key(key, NUM_KEYS)
       /\ from_block' = to_block + 1
       /\ consecutive_empty' = IF consecutive_empty + 1 >= FAILURE_PAUSE
                               THEN 0 ELSE consecutive_empty + 1
       /\ scanPc' = "loop"
       /\ UNCHANGED scanAttempt
       /\ scanHist' = [scanHist EXCEPT !.failed = TRUE]

\* A rate-limit answer: the counter, the wait and the rotation.
ScanRateLimited(signal, unit, cap) ==
  /\ scanPc = "request"
  /\ scanFaults < MaxScanFaults
  /\ scanFaults' = scanFaults + 1
  /\ consecutive_rate_limits' = consecutive_rate_limits + 1
  /\ wait_time' = Min2(unit * consecutive_rate_limits', cap)
  /\ LET key == rotate_key(scanKeyIndex, NUM_KEYS)
         after == [scanHist EXCEPT !.limits = @ + 1, !.signal = signal]
     IN IF scanAttempt + 1 < SCAN_MAX_RETRIES
        THEN /\ scanAttempt' = scanAttempt + 1
             /\ scanKeyIndex' = key
             /\ scanHist' = after
             /\ UNCHANGED <<scanPc, from_block, consecutive_empty>>
        ELSE /\ scanKeyIndex' = rotate_key(key, NUM_KEYS)
             /\ from_block' = to_block + 1
             /\ consecutive_empty' = IF consecutive_empty + 1 >= FAILURE_PAUSE
                                     THEN 0 ELSE consecutive_empty + 1
             /\ scanPc' = "loop"
             /\ scanHist' = [after EXCEPT !.failed = TRUE]
             /\ UNCHANGED scanAttempt
  /\ UNCHANGED <<scanArgs, target_block, absolute_max_block, to_block,
                 all_transactions, scanRest>>

\* status '0' with 'rate limit' or 'max rate' in the message.
ScanRateLimitBody == ScanRateLimited("body", BODY_WAIT_UNIT, BODY_WAIT_CAP)
\* HTTP 429.
ScanHttp429 == ScanRateLimited("http_429", HTTP_WAIT_UNIT, HTTP_WAIT_CAP)

\* Another API error, another HTTP status, or an exception: None.
ScanError ==
  /\ scanPc = "request"
  /\ scanFaults < MaxScanFaults
  /\ scanFaults' = scanFaults + 1
  /\ ScanAfterNone(scanKeyIndex)
  /\ UNCHANGED <<scanArgs, target_block, absolute_max_block, to_block,
                 all_transactions, consecutive_rate_limits, wait_time,
                 scanRest>>

\* "return all_transactions"; the caller may call again.
ScanReturn ==
  /\ scanPc = "done"
  /\ scanPc' = "idle"
  /\ UNCHANGED <<scanArgs, target_block, absolute_max_block, from_block,
                 to_block, scanAttempt, consecutive_empty, all_transactions,
                 consecutive_rate_limits, scanKeyIndex, wait_time, scanFaults,
                 scanHist, scanRest>>

NextScan ==
  \/ ScanCall \/ ScanLoop \/ ScanOk \/ ScanNoTransactions
  \/ ScanRateLimitBody \/ ScanHttp429 \/ ScanError \/ ScanReturn

SpecScan == InitScan /\ [][NextScan]_vars

\* The windows fetch_all_transactions has queried.
Queries == scanHist.queries

\* C36 as claimed: when fetch_all_transactions(start_block, end_block) has
\* left its loop without a break, the windows it queried are ascending and
\* disjoint and cover every block from start_block to end_block, end_block
\* included.
C36_ScanCoversRange ==
  (scanPc = "done" /\ ~scanHist.broke /\ scanArgs[2] # 0) =>
     /\ \A i \in DOMAIN Queries : Queries[i].s <= Queries[i].e
     /\ \A i, j \in DOMAIN Queries : i < j => Queries[i].e < Queries[j].s
     /\ \A b \in scanArgs[1] .. scanArgs[2] :
           \E i \in DOMAIN Queries : Queries[i].s <= b /\ b <= Queries[i].e

\* C37 as claimed: when fetch_all_transactions has returned and no window
\* of it was given up, the records it collected include every transfer the
\* ledger holds in the windows it scanned (a result of the per-query
\* maximum is not taken for the whole window).
C37_ScanResultComplete ==
  (scanPc = "done" /\ ~scanHist.failed) =>
     \A i \in DOMAIN Queries :
        Rows(ConvertRows(LedgerIn(Queries[i].s, Queries[i].e, chainHead)))
           \subseteq Rows(all_transactions)

\* C38 as claimed: the consecutive-rate-limit counter is the number of
\* rate-limit answers since the most recent successful answer (with
\* transfers or 'No transactions found'), and the wait derived from it is at
\* most 60 seconds for a limit signalled in the body and 300 for HTTP 429.
C38_CounterSinceSuccess ==
  /\ consecutive_rate_limits = scanHist.limits
  /\ scanHist.signal = "body" =>
        wait_time = Min2(BODY_WAIT_UNIT * consecutive_rate_limits, BODY_WAIT_CAP)
           \/ consecutive_rate_limits = 0
  /\ scanHist.signal = "http_429" =>
        wait_time = Min2(HTTP_WAIT_UNIT * consecutive_rate_limits, HTTP_WAIT_CAP)
           \/ consecutive_rate_limits = 0
  /\ wait_time <= (IF scanHist.signal = "body" THEN BODY_WAIT_CAP
                   ELSE HTTP_WAIT_CAP)

====
